---- MODULE Spec2Model ----
(***************************************************************************)
(* Model of gosec's form-parsing-limit analyzer                            *)
(* (analyzers/form_parsing_limits.go): the memoized, cycle-safe            *)
(* dependency checker over the SSA value graph, and the handler            *)
(* protection analysis built on it.                                        *)
(*                                                                         *)
(* The checker is modelled twice from the same code: as a small-step       *)
(* machine with an explicit call stack (Query / Enter / Exit), which       *)
(* exposes memo and visiting at every moment of the recursion, and as the  *)
(* recursive operator DependsOnDepth, which is the same function in one    *)
(* piece.  BigStepAgrees ties the two together.                            *)
(*                                                                         *)
(* The specifications share the variables: Spec and LiveSpec run the       *)
(* small-step checker on Phi graphs, KindSpec asks the checker about       *)
(* values of every kind, AnalysisSpec runs runFormParsingLimitAnalysis on  *)
(* a family of programs and TwiceSpec runs it twice on the same pass,      *)
(* UnwrapSpec applies isMaxBytesReaderValue to stored values, GuardSpec    *)
(* judges sink calls of the taint engine against their argument type       *)
(* guards, and TaintSpec propagates taint from sources to sink calls.      *)
(***************************************************************************)
EXTENDS Integers, Sequences, FiniteSets, TLC

VARIABLES
    graph,      \* the SSA value graph (read-only during analysis)
    memo,       \* dependencyChecker.memo
    visiting,   \* dependencyChecker.visiting
    stack,      \* the activations of dependsOnDepth, outermost first
    query,      \* arguments of the current or last top-level dependsOn
    done,       \* the last top-level dependsOn has returned
    result,     \* what it returned
    ret,        \* the last return of dependsOnDepth: which one, and its value
    entryMemo,  \* history: memo when the current top-level call began
    first,      \* history: the first answer given to each top-level query
    prog,       \* the SSA functions handed to the analyzer (read-only)
    run         \* runFormParsingLimitAnalysis: its position and its locals

vars == <<graph, memo, visiting, stack, query, done, result, ret, entryMemo,
          first, prog, run>>

checkerVars == <<visiting, stack, query, done, result, ret, entryMemo, first>>

(***************************************************************************)
(* Bounds.                                                                 *)
(***************************************************************************)
\* Number of SSA values of the value graph; the last one is the target.
NumValues == 4

\* Stand-in for the analyzers' MaxDepth constant (the design recommends 32),
\* scaled down so that chains longer than the depth bound fit in the graph.
MaxDepth == 2

(***************************************************************************)
(* SSA values.  A value is an integer id; graph maps it to the fields the  *)
(* checker's type switch reads.  Nil is Go's nil ssa.Value.                *)
(***************************************************************************)
Nil == 0

Values == 1 .. NumValues

TargetValue == NumValues

NoEdges == << >>

\* A go/types type, as far as the analyzer looks at it: a named type
\* (name, package path) or a pointer to one; name "" is any other type.
Type(ptr, name, pkg) == [ptr |-> ptr, name |-> name, pkg |-> pkg]

NoType == Type(FALSE, "", "")

\* The fields of an ssa.Value the analyzer reads; a field a kind does not
\* have is Nil or empty.
Value(kind, x, edges) ==
    [kind |-> kind, X |-> x, Index |-> Nil, Low |-> Nil, High |-> Nil,
     Max |-> Nil, Tuple |-> Nil, Edges |-> edges, CallValue |-> Nil,
     Args |-> NoEdges, Method |-> "", Field |-> "", Fn |-> Nil,
     Bindings |-> NoEdges, Type |-> NoType]

\* The non-nil entries of a sequence of optional operands, in order.
NonNil(s) == SelectSeq(s, LAMBDA v : v # Nil)

\* Operands with an arm for Convert and BinOp: the walk goes on through
\* their X.
Operands_ThroughConvert(v) ==
    LET n == graph[v] IN
    CASE n.kind \in {"ChangeType", "MakeInterface", "TypeAssert", "UnOp",
                     "FieldAddr", "Field", "Convert", "BinOp"} -> <<n.X>>
      [] n.kind \in {"IndexAddr", "Index"} -> <<n.X, n.Index>>
      [] n.kind = "Slice" -> <<n.X>> \o NonNil(<<n.Low, n.High, n.Max>>)
      [] n.kind = "Extract" -> <<n.Tuple>>
      [] n.kind = "Phi" -> n.Edges
      [] n.kind = "Call" -> NonNil(<<n.CallValue>>) \o n.Args
      [] OTHER -> NoEdges

\* The operands dependsOnDepth recurses into, in the order of its type
\* switch; every arm short-circuits on the first operand that depends on
\* target.  Kinds without an arm contribute no operands.
Operands(v) ==
    LET n == graph[v] IN
    CASE n.kind \in {"ChangeType", "MakeInterface", "TypeAssert", "UnOp",
                     "FieldAddr", "Field"} -> <<n.X>>
      [] n.kind \in {"IndexAddr", "Index"} -> <<n.X, n.Index>>
      [] n.kind = "Slice" -> <<n.X>> \o NonNil(<<n.Low, n.High, n.Max>>)
      [] n.kind = "Extract" -> <<n.Tuple>>
      [] n.kind = "Phi" -> n.Edges
      [] n.kind = "Call" -> NonNil(<<n.CallValue>>) \o n.Args
      [] OTHER -> NoEdges

(***************************************************************************)
(* dependencyChecker state: memo maps (value, target) keys to booleans,    *)
(* visiting is the set of keys whose call is still on the stack.           *)
(***************************************************************************)
dependencyKey(value, target) == <<value, target>>

EmptyMemo == [k \in {} |-> FALSE]

MemoPut(m, key, r) ==
    [k \in DOMAIN m \cup {key} |-> IF k = key THEN r ELSE m[k]]

\* EntryOutcome without the visiting check: a key that is re-entered while
\* its call is on the stack is walked again.
EntryOutcome_NoVisiting(value, target, depth, m, vis) ==
    IF value = Nil \/ target = Nil \/ depth > MaxDepth THEN "cutoff"
    ELSE IF value = target THEN "equal"
    ELSE IF dependencyKey(value, target) \in DOMAIN m THEN "memo"
    ELSE "recurse"

\* Which return of dependsOnDepth's prologue a call takes, or "recurse"
\* when it goes on to mark the key as visiting and walk the operands.
EntryOutcome(value, target, depth, m, vis) ==
    IF value = Nil \/ target = Nil \/ depth > MaxDepth THEN "cutoff"
    ELSE IF value = target THEN "equal"
    ELSE IF dependencyKey(value, target) \in DOMAIN m THEN "memo"
    ELSE IF dependencyKey(value, target) \in vis THEN "visiting"
    ELSE "recurse"

\* EntryResult with a memo hit that reports the entry's presence as a
\* miss: the stored boolean is dropped.
EntryResult_MemoDropped(outcome, value, target, m) ==
    CASE outcome = "equal" -> TRUE
      [] OTHER -> FALSE

\* EntryResult with the re-entry of a key taken as a proof: a value on a
\* cycle depends on everything.
EntryResult_CycleTrue(outcome, value, target, m) ==
    CASE outcome \in {"equal", "visiting"} -> TRUE
      [] outcome = "memo" -> m[dependencyKey(value, target)]
      [] OTHER -> FALSE

\* The boolean a prologue return yields.
EntryResult(outcome, value, target, m) ==
    CASE outcome = "equal" -> TRUE
      [] outcome = "memo" -> m[dependencyKey(value, target)]
      [] OTHER -> FALSE

(***************************************************************************)
(* dependsOnDepth as one recursive function of the checker state: the      *)
(* result and the memo it leaves (visiting is restored by every call).     *)
(***************************************************************************)
RECURSIVE DependsOnDepth(_, _, _, _, _)
RECURSIVE AnyOperand(_, _, _, _, _, _)

DependsOnDepth(value, target, depth, m, vis) ==
    LET outcome == EntryOutcome(value, target, depth, m, vis)
        key == dependencyKey(value, target)
    IN  IF outcome # "recurse"
        THEN [result |-> EntryResult(outcome, value, target, m), memo |-> m]
        ELSE LET r == AnyOperand(Operands(value), 1, target, depth + 1, m,
                                 vis \cup {key})
             IN  [result |-> r.result, memo |-> MemoPut(r.memo, key, r.result)]

AnyOperand(ops, i, target, depth, m, vis) ==
    IF i > Len(ops) THEN [result |-> FALSE, memo |-> m]
    ELSE LET r == DependsOnDepth(ops[i], target, depth, m, vis)
         IN  IF r.result THEN r
             ELSE AnyOperand(ops, i + 1, target, depth, r.memo, vis)

\* dependsOn on a checker whose memo is m.
DependsOn(value, target, m) == DependsOnDepth(value, target, 0, m, {})

(***************************************************************************)
(* The value graphs of the checker specification: the target is a leaf,    *)
(* value 1 is a leaf or a Phi with one or two edges, every other value is  *)
(* a leaf or a Phi with one edge.  Edges may point anywhere, so the family *)
(* holds chains, self loops, mutual Phi cycles and cycles with an exit.    *)
(***************************************************************************)
Leaf == Value("Const", Nil, NoEdges)

OneEdge == {Value("Phi", Nil, <<a>>) : a \in Values}

TwoEdges ==
    {Value("Phi", Nil, <<a, b>>) : a, b \in Values} \
        {Value("Phi", Nil, <<a, a>>) : a \in Values}

CheckerGraphs ==
    {g \in [Values -> {Leaf} \cup OneEdge \cup TwoEdges] :
        /\ g[TargetValue] = Leaf
        /\ \A v \in Values \ {1} : g[v] \notin TwoEdges \/ g[v] \in OneEdge}

\* The checker specification runs no analysis.
NoProgram == [srcFuncs |-> << >>, fn |-> << >>]

NoRun == [phase |-> "none"]

NoQuery == [value |-> Nil, target |-> Nil]

NoReturn == [why |-> "none", result |-> FALSE]

Init ==
    /\ graph \in CheckerGraphs
    /\ memo = EmptyMemo
    /\ visiting = {}
    /\ stack = << >>
    /\ query = NoQuery
    /\ done = FALSE
    /\ result = FALSE
    /\ ret = NoReturn
    /\ entryMemo = EmptyMemo
    /\ first = EmptyMemo
    /\ prog = NoProgram
    /\ run = NoRun

(***************************************************************************)
(* Small-step machine.  A frame is one activation of dependsOnDepth past   *)
(* its prologue: idx is the next operand to examine, result the value of   *)
(* the local variable result.                                              *)
(***************************************************************************)
Frame(value, target, depth) ==
    [value |-> value, target |-> target, depth |-> depth, idx |-> 1,
     result |-> FALSE]

Top == stack[Len(stack)]

Running == stack # << >>

\* The caller's frame after a callee returned r: a true operand sets
\* result and leaves the switch, a false one moves to the next operand.
Resume(f, r) == [f EXCEPT !.idx = f.idx + 1, !.result = r]

\* The history of first answers after a top-level call that took the
\* prologue exit outcome (or "computed") returned r.  Only calls that got as
\* far as building their dependencyKey are recorded.
Answered(h, outcome, key, r) ==
    IF outcome \in {"cutoff", "equal"} \/ key \in DOMAIN h THEN h
    ELSE MemoPut(h, key, r)

\* dependsOn(value, target): the top-level call at depth 0.
Query(value, target) ==
    /\ ~Running
    /\ LET outcome == EntryOutcome(value, target, 0, memo, visiting) IN
       /\ query' = [value |-> value, target |-> target]
       /\ entryMemo' = memo
       /\ IF outcome = "recurse"
          THEN /\ visiting' = visiting \cup {dependencyKey(value, target)}
               /\ stack' = <<Frame(value, target, 0)>>
               /\ done' = FALSE
               /\ result' = FALSE
               /\ ret' = NoReturn
               /\ UNCHANGED first
          ELSE /\ done' = TRUE
               /\ result' = EntryResult(outcome, value, target, memo)
               /\ ret' = [why |-> outcome,
                          result |-> EntryResult(outcome, value, target, memo)]
               /\ first' = Answered(first, outcome,
                                    dependencyKey(value, target),
                                    EntryResult(outcome, value, target, memo))
               /\ UNCHANGED <<visiting, stack>>
    /\ UNCHANGED <<graph, memo, prog, run>>

\* The running activation calls dependsOnDepth on its next operand.
Enter ==
    /\ Running
    /\ ~Top.result
    /\ Top.idx <= Len(Operands(Top.value))
    /\ LET f == Top
           child == Operands(f.value)[f.idx]
           outcome == EntryOutcome(child, f.target, f.depth + 1, memo, visiting)
           r == EntryResult(outcome, child, f.target, memo)
       IN  IF outcome = "recurse"
           THEN /\ visiting' = visiting \cup {dependencyKey(child, f.target)}
                /\ stack' = Append(stack, Frame(child, f.target, f.depth + 1))
                /\ ret' = NoReturn
           ELSE /\ stack' = [stack EXCEPT ![Len(stack)] = Resume(f, r)]
                /\ ret' = [why |-> outcome, result |-> r]
                /\ UNCHANGED visiting
    /\ UNCHANGED <<graph, memo, query, done, result, entryMemo, first, prog,
                   run>>

\* Exit without the delete: the key stays marked when its call returns.
Exit_KeepsVisiting ==
    /\ Running
    /\ Top.result \/ Top.idx > Len(Operands(Top.value))
    /\ LET f == Top
           key == dependencyKey(f.value, f.target)
           rest == SubSeq(stack, 1, Len(stack) - 1)
       IN  /\ memo' = MemoPut(memo, key, f.result)
           /\ ret' = [why |-> "computed", result |-> f.result]
           /\ IF rest = << >>
              THEN /\ stack' = << >>
                   /\ done' = TRUE
                   /\ result' = f.result
                   /\ first' = Answered(first, "computed", key, f.result)
              ELSE /\ stack' = [rest EXCEPT ![Len(rest)] =
                                    Resume(rest[Len(rest)], f.result)]
                   /\ UNCHANGED <<done, result, first>>
    /\ UNCHANGED <<graph, visiting, query, entryMemo, prog, run>>

\* The running activation is through with its operands: it unmarks its
\* key, memoizes its result and returns it to its caller.
Exit ==
    /\ Running
    /\ Top.result \/ Top.idx > Len(Operands(Top.value))
    /\ LET f == Top
           key == dependencyKey(f.value, f.target)
           rest == SubSeq(stack, 1, Len(stack) - 1)
       IN  /\ visiting' = visiting \ {key}
           /\ memo' = MemoPut(memo, key, f.result)
           /\ ret' = [why |-> "computed", result |-> f.result]
           /\ IF rest = << >>
              THEN /\ stack' = << >>
                   /\ done' = TRUE
                   /\ result' = f.result
                   /\ first' = Answered(first, "computed", key, f.result)
              ELSE /\ stack' = [rest EXCEPT ![Len(rest)] =
                                    Resume(rest[Len(rest)], f.result)]
                   /\ UNCHANGED <<done, result, first>>
    /\ UNCHANGED <<graph, query, entryMemo, prog, run>>

\* The queries put to the checker: every value, and nil, against the
\* target, and one query with a nil target.
QueryInputs ==
    {<<v, TargetValue>> : v \in Values \cup {Nil}} \cup {<<TargetValue, Nil>>}

QueryAny == \E q \in QueryInputs : Query(q[1], q[2])

Next == QueryAny \/ Enter \/ Exit

Spec == Init /\ [][Next]_vars

\* Every top-level call terminates only if its steps are taken.
LiveSpec == Spec /\ WF_vars(Enter) /\ WF_vars(Exit)

TypeOK ==
    /\ DOMAIN memo \subseteq Values \X Values
    /\ visiting \subseteq Values \X Values
    /\ done \in BOOLEAN
    /\ result \in BOOLEAN

\* The small-step machine computes the recursive function: a top-level
\* call that started with memo entryMemo returns DependsOn's result and
\* leaves DependsOn's memo.
BigStepAgrees ==
    done => /\ result = DependsOn(query.value, query.target, entryMemo).result
            /\ memo = DependsOn(query.value, query.target, entryMemo).memo
            /\ visiting = {}

(***************************************************************************)
(* The checker on every kind of value.  Value 3 is a parameter, value 2    *)
(* is a value of any kind with value 3 in one of its operand slots, and    *)
(* value 1 is a value of any kind with value 2 in one of its slots.  The   *)
(* kinds are those of the type switch and kinds it has no arm for, some    *)
(* of them with an operand X of their own.                                 *)
(***************************************************************************)
KindValues == {1, 2, 3}

\* Kinds whose operand is the field X.
UnaryKinds ==
    {"ChangeType", "MakeInterface", "ChangeInterface", "TypeAssert", "UnOp",
     "FieldAddr", "Field", "Convert", "BinOp"}

\* Kinds without operands.
LeafKinds == {"Alloc", "Parameter", "Const", "Global", "FreeVar"}

\* The values that have x as an operand, and the values without operands.
Shapes(x) ==
    {Value(k, x, NoEdges) : k \in UnaryKinds}
    \cup {Value(k, Nil, NoEdges) : k \in LeafKinds}
    \cup {[Value(k, x, NoEdges) EXCEPT !.Index = 3] : k \in {"IndexAddr", "Index"}}
    \cup {[Value(k, 3, NoEdges) EXCEPT !.Index = x] : k \in {"IndexAddr", "Index"}}
    \cup {Value("Slice", x, NoEdges),
          [Value("Slice", 3, NoEdges) EXCEPT !.Low = x],
          [Value("Slice", 3, NoEdges) EXCEPT !.High = x],
          [Value("Slice", 3, NoEdges) EXCEPT !.Max = x],
          [Value("Extract", Nil, NoEdges) EXCEPT !.Tuple = x],
          Value("Phi", Nil, <<x>>),
          Value("Phi", Nil, <<3, x>>),
          [Value("Call", Nil, NoEdges) EXCEPT !.CallValue = x],
          [Value("Call", Nil, NoEdges) EXCEPT !.Args = <<x>>],
          [Value("Call", Nil, NoEdges) EXCEPT !.CallValue = 3, !.Args = <<3, x>>],
          [Value("MakeClosure", Nil, NoEdges) EXCEPT !.Fn = 3, !.Bindings = <<x>>]}

KindGraphs ==
    {g \in [KindValues -> Shapes(2) \cup Shapes(3)] :
        /\ g[3] = Value("Parameter", Nil, NoEdges)
        /\ g[2] \in Shapes(3)
        /\ g[1] \in Shapes(2)}

KindInit ==
    /\ graph \in KindGraphs
    /\ memo = EmptyMemo
    /\ visiting = {}
    /\ stack = << >>
    /\ query = NoQuery
    /\ done = FALSE
    /\ result = FALSE
    /\ ret = NoReturn
    /\ entryMemo = EmptyMemo
    /\ first = EmptyMemo
    /\ prog = NoProgram
    /\ run = NoRun

\* A whole top-level call dependsOn(value, target) that returned d.
Asked(value, target, d) ==
    /\ query' = [value |-> value, target |-> target]
    /\ entryMemo' = memo
    /\ memo' = d.memo
    /\ result' = d.result
    /\ done' = TRUE
    /\ UNCHANGED <<graph, visiting, stack, ret, first, prog, run>>

Ask(value, target) == Asked(value, target, DependsOn(value, target, memo))

\* Every value against value 3 and against itself, value 1 against value
\* 2, and the nil queries.
KindQueries ==
    {<<v, 3>> : v \in KindValues \cup {Nil}}
    \cup {<<v, v>> : v \in KindValues} \cup {<<1, 2>>, <<3, Nil>>}

KindNext == \E q \in KindQueries : Ask(q[1], q[2])

KindSpec == KindInit /\ [][KindNext]_vars

(***************************************************************************)
(* The form-parsing-limit analysis.  A function is an SSA value of kind    *)
(* "Function"; prog.fn maps it to its name, package path, receiver type,   *)
(* parameters, free variables, anonymous functions and instructions (the   *)
(* blocks in order, flattened).  An instruction that is also a value (a    *)
(* Call, a MakeClosure) carries that value in v.  Every operation that     *)
(* asks the shared checker returns the memo it leaves with its result.     *)
(***************************************************************************)
Function(name, pkg, recv, params, freeVars, anon, instrs) ==
    [name |-> name, pkg |-> pkg, recv |-> recv, params |-> params,
     freeVars |-> freeVars, anon |-> anon, instrs |-> instrs]

Instr(op, v, addr, val, pos) ==
    [op |-> op, v |-> v, Addr |-> addr, Val |-> val, pos |-> pos]

\* What an operation returns: its boolean and the memo it leaves.
R(r, m) == [result |-> r, memo |-> m]

\* a && b and a || b on such results: b runs on the memo a left, and only
\* when a does not decide.
Both(a, b(_)) == IF a.result THEN b(a.memo) ELSE a

Either(a, b(_)) == IF a.result THEN a ELSE b(a.memo)

\* ssa.CallInstruction: *ssa.Call, *ssa.Go and *ssa.Defer.
IsCallInstruction(instr) == instr.op \in {"Call", "Go", "Defer"}

\* CallCommon.StaticCallee: the called function when the call is not an
\* interface method invocation and its callee value is a function or a
\* closure over one.
StaticCallee(call) ==
    LET c == graph[call] IN
    IF c.Method # "" \/ c.CallValue = Nil THEN Nil
    ELSE IF graph[c.CallValue].kind = "Function" THEN c.CallValue
    ELSE IF graph[c.CallValue].kind = "MakeClosure" THEN graph[c.CallValue].Fn
    ELSE Nil

\* The type is *net/http.Request.
isHTTPRequestPointerType(t) ==
    t.ptr /\ t.name = "Request" /\ t.pkg = "net/http"

\* The type is the named type net/http.ResponseWriter.
isHTTPResponseWriterType(t) ==
    ~t.ptr /\ t.name = "ResponseWriter" /\ t.pkg = "net/http"

\* The first parameter of fn, from index i on, whose type is the request
\* pointer (want = "request") or the response writer (want = "writer").
RECURSIVE FirstParam(_, _, _)
FirstParam(fn, want, i) ==
    LET params == prog.fn[fn].params IN
    IF i > Len(params) THEN Nil
    ELSE IF params[i] # Nil
            /\ IF want = "request"
               THEN isHTTPRequestPointerType(graph[params[i]].Type)
               ELSE isHTTPResponseWriterType(graph[params[i]].Type)
         THEN params[i]
         ELSE FirstParam(fn, want, i + 1)

\* findHandlerRequestAndWriterParams looking for the request only after
\* the first parameter: the writer has to come first.
findHandlerRequestAndWriterParams_WriterFirst(fn) ==
    IF fn = Nil THEN [request |-> Nil, writer |-> Nil]
    ELSE [request |-> FirstParam(fn, "request", 2),
          writer |-> FirstParam(fn, "writer", 1)]

\* findHandlerRequestAndWriterParams: the request and the writer parameter
\* of fn, each Nil when fn has none.
findHandlerRequestAndWriterParams(fn) ==
    IF fn = Nil THEN [request |-> Nil, writer |-> Nil]
    ELSE [request |-> FirstParam(fn, "request", 1),
          writer |-> FirstParam(fn, "writer", 1)]

\* collectAnalyzerFunctions: the source functions, each followed by its
\* anonymous functions.
RECURSIVE WithAnonFuncs(_)
RECURSIVE CollectFrom(_, _)
WithAnonFuncs(fn) == <<fn>> \o CollectFrom(prog.fn[fn].anon, 1)

CollectFrom(fns, i) ==
    IF i > Len(fns) THEN << >>
    ELSE WithAnonFuncs(fns[i]) \o CollectFrom(fns, i + 1)

collectAnalyzerFunctions(srcFuncs) == CollectFrom(srcFuncs, 1)

\* isMaxBytesReaderValue: v is a call of net/http.MaxBytesReader on the
\* handler's writer and request, seen through ChangeType, MakeInterface,
\* TypeAssert and Phi.
RECURSIVE isMaxBytesReaderValue(_, _, _, _, _)
RECURSIVE AnyEdgeMaxBytesReader(_, _, _, _, _, _)
isMaxBytesReaderValue(v, requestParam, writerParam, m, depth) ==
    IF v = Nil \/ depth > MaxDepth THEN R(FALSE, m)
    ELSE LET n == graph[v] IN
         CASE n.kind = "Call" ->
                LET callee == StaticCallee(v) IN
                IF callee = Nil THEN R(FALSE, m)
                ELSE IF prog.fn[callee].name # "MaxBytesReader" THEN R(FALSE, m)
                ELSE IF prog.fn[callee].pkg # "net/http" THEN R(FALSE, m)
                ELSE IF Len(n.Args) < 3 THEN R(FALSE, m)
                ELSE Both(DependsOn(n.Args[1], writerParam, m),
                          LAMBDA m2 : DependsOn(n.Args[2], requestParam, m2))
           [] n.kind \in {"ChangeType", "MakeInterface", "TypeAssert"} ->
                isMaxBytesReaderValue(n.X, requestParam, writerParam, m,
                                      depth + 1)
           [] n.kind = "Phi" ->
                AnyEdgeMaxBytesReader(n.Edges, 1, requestParam, writerParam,
                                      m, depth + 1)
           [] OTHER -> R(FALSE, m)

\* AnyEdgeMaxBytesReader looking at one edge of the Phi only.
AnyEdgeMaxBytesReader_FirstEdge(edges, i, requestParam, writerParam, m, depth) ==
    IF i > Len(edges) THEN R(FALSE, m)
    ELSE isMaxBytesReaderValue(edges[i], requestParam, writerParam, m, depth)

AnyEdgeMaxBytesReader(edges, i, requestParam, writerParam, m, depth) ==
    IF i > Len(edges) THEN R(FALSE, m)
    ELSE Either(isMaxBytesReaderValue(edges[i], requestParam, writerParam,
                                      m, depth),
                LAMBDA m2 : AnyEdgeMaxBytesReader(edges, i + 1, requestParam,
                                                  writerParam, m2, depth))

\* isRequestBodyStoreFromMaxBytesReader: the store's address is a FieldAddr
\* whose base depends on the request parameter, and its value is a
\* MaxBytesReader call.
isRequestBodyStoreFromMaxBytesReader(store, requestParam, writerParam, m) ==
    IF store.Addr = Nil \/ graph[store.Addr].kind # "FieldAddr" THEN R(FALSE, m)
    ELSE Both(DependsOn(graph[store.Addr].X, requestParam, m),
              LAMBDA m2 : isMaxBytesReaderValue(store.Val, requestParam,
                                                writerParam, m2, 0))

\* functionHasRequestBodyLimit: some Store of fn, from instruction i on, is
\* such a store, wherever in fn it stands.
RECURSIVE HasRequestBodyLimitFrom(_, _, _, _, _)
HasRequestBodyLimitFrom(fn, i, requestParam, writerParam, m) ==
    LET instrs == prog.fn[fn].instrs IN
    IF i > Len(instrs) THEN R(FALSE, m)
    ELSE Either(IF instrs[i].op # "Store" THEN R(FALSE, m)
                ELSE isRequestBodyStoreFromMaxBytesReader(
                         instrs[i], requestParam, writerParam, m),
                LAMBDA m2 : HasRequestBodyLimitFrom(fn, i + 1, requestParam,
                                                    writerParam, m2))

functionHasRequestBodyLimit(fn, requestParam, writerParam, m) ==
    HasRequestBodyLimitFrom(fn, 1, requestParam, writerParam, m)

RiskyNames == {"ParseForm", "ParseMultipartForm", "FormValue", "PostFormValue"}

\* isRiskyFormParsingCall: a call of one of the form-parsing methods of
\* *net/http.Request whose receiver argument depends on the request
\* parameter.
isRiskyFormParsingCall(callInstr, requestParam, m) ==
    LET callee == StaticCallee(callInstr.v) IN
    IF callee = Nil THEN R(FALSE, m)
    ELSE IF prog.fn[callee].recv = NoType THEN R(FALSE, m)
    ELSE IF ~isHTTPRequestPointerType(prog.fn[callee].recv) THEN R(FALSE, m)
    ELSE IF prog.fn[callee].name \notin RiskyNames THEN R(FALSE, m)
    ELSE IF Len(graph[callInstr.v].Args) = 0 THEN R(FALSE, m)
    ELSE DependsOn(graph[callInstr.v].Args[1], requestParam, m)

\* The call is an interface invocation of ServeHTTP, or a static call of
\* a method named ServeHTTP.
InvokesServeHTTP(call) == graph[call].Method = "ServeHTTP"

CallsServeHTTP(call) ==
    LET callee == StaticCallee(call) IN
    /\ callee # Nil
    /\ prog.fn[callee].name = "ServeHTTP"
    /\ prog.fn[callee].recv # NoType

\* Its receiver, writer and request: for an invocation the receiver is
\* the call's value and the arguments follow, for a static call the
\* receiver is the first argument.
ServeHTTPOperands(call) ==
    LET c == graph[call] IN
    IF InvokesServeHTTP(call)
    THEN IF Len(c.Args) < 2 THEN << >>
         ELSE <<c.CallValue, c.Args[1], c.Args[2]>>
    ELSE IF ~CallsServeHTTP(call) \/ Len(c.Args) < 3 THEN << >>
         ELSE <<c.Args[1], c.Args[2], c.Args[3]>>

\* hasServeHTTPDelegation: fn, from instruction i on, calls ServeHTTP on a
\* receiver that depends on handlerValue, with a writer and a request that
\* depend on writerValue and requestValue.
RECURSIVE ServeHTTPDelegationFrom(_, _, _, _, _, _)
ServeHTTPDelegationFrom(fn, i, handlerValue, writerValue, requestValue, m) ==
    LET instrs == prog.fn[fn].instrs
        ops == ServeHTTPOperands(instrs[i].v)
    IN
    IF i > Len(instrs) THEN R(FALSE, m)
    ELSE Either(
            IF instrs[i].op # "Call" THEN R(FALSE, m)
            ELSE IF ops = << >> THEN R(FALSE, m)
            ELSE Both(DependsOn(ops[1], handlerValue, m),
                      LAMBDA m1 :
                          Both(DependsOn(ops[2], writerValue, m1),
                               LAMBDA m2 :
                                   DependsOn(ops[3], requestValue, m2))),
            LAMBDA m3 : ServeHTTPDelegationFrom(fn, i + 1, handlerValue,
                                                writerValue, requestValue, m3))

hasServeHTTPDelegation(fn, handlerValue, writerValue, requestValue, m) ==
    ServeHTTPDelegationFrom(fn, 1, handlerValue, writerValue, requestValue, m)

\* wrapperDelegatesWithRequestLimit without the body limit: a handler
\* that delegates to handlerValue protects it.
wrapperDelegatesWithRequestLimit_NoLimit(wrapper, handlerValue, m) ==
    LET ps == findHandlerRequestAndWriterParams(wrapper) IN
    IF ps.request = Nil \/ ps.writer = Nil THEN R(FALSE, m)
    ELSE hasServeHTTPDelegation(wrapper, handlerValue, ps.writer, ps.request,
                                m)

\* wrapperDelegatesWithRequestLimit: the wrapper is itself a handler that
\* bounds the body and delegates to handlerValue.
wrapperDelegatesWithRequestLimit(wrapper, handlerValue, m) ==
    LET ps == findHandlerRequestAndWriterParams(wrapper) IN
    IF ps.request = Nil \/ ps.writer = Nil THEN R(FALSE, m)
    ELSE Both(functionHasRequestBodyLimit(wrapper, ps.request, ps.writer, m),
              LAMBDA m2 : hasServeHTTPDelegation(wrapper, handlerValue,
                                                 ps.writer, ps.request, m2))

\* closureDelegatesWithRequestLimit: the closure delegates to its free
\* variable number freeVarIndex.
closureDelegatesWithRequestLimit(closure, freeVarIndex, requestParam, writerParam, m) ==
    IF freeVarIndex < 1 \/ freeVarIndex > Len(prog.fn[closure].freeVars)
    THEN R(FALSE, m)
    ELSE hasServeHTTPDelegation(closure, prog.fn[closure].freeVars[freeVarIndex],
                                writerParam, requestParam, m)

\* The instructions that have v as an operand, in program order.
RECURSIVE ReferrersFrom(_, _, _)
ReferrersFrom(v, fns, i) ==
    IF i > Len(fns) THEN << >>
    ELSE SelectSeq(prog.fn[fns[i]].instrs,
                   LAMBDA instr :
                       \/ instr.Addr = v
                       \/ instr.Val = v
                       \/ /\ instr.v # Nil
                          /\ \E k \in 1 .. Len(Operands(instr.v)) :
                                Operands(instr.v)[k] = v)
         \o ReferrersFrom(v, fns, i + 1)

safeReferrers(v) ==
    ReferrersFrom(v, collectAnalyzerFunctions(prog.srcFuncs), 1)

\* bindingDependsOnValue: the binding depends on target, or it is an Alloc
\* cell into which a value that depends on target is stored.
RECURSIVE StoredValueDependsFrom(_, _, _, _, _)
StoredValueDependsFrom(refs, i, alloc, target, m) ==
    IF i > Len(refs) THEN R(FALSE, m)
    ELSE Either(IF refs[i].op # "Store" \/ refs[i].Addr # alloc
                THEN R(FALSE, m)
                ELSE DependsOn(refs[i].Val, target, m),
                LAMBDA m2 : StoredValueDependsFrom(refs, i + 1, alloc, target,
                                                   m2))

\* bindingDependsOnValue without the Alloc case: a captured cell is never
\* followed to the stores into it.
bindingDependsOnValue_NoCell(binding, target, m) ==
    DependsOn(binding, target, m)

\* bindingDependsOnValue taking every Alloc binding as depending on the
\* target, whatever is stored into it.
bindingDependsOnValue_AnyAlloc(binding, target, m) ==
    Either(DependsOn(binding, target, m),
           LAMBDA m2 : R(binding # Nil /\ graph[binding].kind = "Alloc", m2))

bindingDependsOnValue(binding, target, m) ==
    Either(DependsOn(binding, target, m),
           LAMBDA m2 :
               IF binding = Nil \/ graph[binding].kind # "Alloc"
               THEN R(FALSE, m2)
               ELSE StoredValueDependsFrom(safeReferrers(binding), 1, binding,
                                           target, m2))

(***************************************************************************)
(* The programs of the analysis specification.  Each is the SSA form of    *)
(* the middleware sample of SampleCodeG120,                                *)
(*                                                                         *)
(*   func middleware(next http.Handler) http.Handler {                     *)
(*       return http.HandlerFunc(func(w http.ResponseWriter,               *)
(*                                    r *http.Request) {                   *)
(*           r.Body = http.MaxBytesReader(w, r.Body, 1<<20)                *)
(*           next.ServeHTTP(w, r)                                          *)
(*       })                                                                *)
(*   }                                                                     *)
(*   func handler(w http.ResponseWriter, r *http.Request) {                *)
(*       _ = r.ParseForm()                                                 *)
(*   }                                                                     *)
(*   func register() {                                                     *)
(*       http.Handle("/safe", middleware(http.HandlerFunc(handler)))       *)
(*   }                                                                     *)
(*                                                                         *)
(* varied by a record of features:                                         *)
(*   limit     where handler assigns a MaxBytesReader call: nowhere, to    *)
(*             r.Body before or after the form call, or to r.Response.Body *)
(*   callee    the method handler calls: ParseForm, FormValue, Cookie, or  *)
(*             a ParseForm whose receiver type is not *http.Request        *)
(*   recv      its receiver: r, a request unrelated to r, or the loop      *)
(*             variable of                                                 *)
(*                 var req *http.Request                                   *)
(*                 for ... { req = pick(req, r); req.Method = "POST" }     *)
(*   wrapper   whether register wraps handler in middleware                *)
(*   climit    whether the closure assigns r.Body                          *)
(*   binding   what the closure captures: the cell holding next, next      *)
(*             itself, or an unrelated cell                                *)
(*   delegate  the receiver of the closure's ServeHTTP call: the captured  *)
(*             variable, another handler, or no call at all                *)
(*   site      how register calls middleware: statically; through a        *)
(*             variable of function type; statically after registering     *)
(*             the bare handler as well; or, middleware taking a tag       *)
(*             before next, with the handler passed second ("shifted") or  *)
(*             first ("misplaced")                                         *)
(*   params    the parameters of handler: writer and request ("wr"), the   *)
(*             two swapped, one of them alone, a context before them, a    *)
(*             ResponseWriter of another package, or a Request by value    *)
(*   direct    whether the program also has                                *)
(*                 func withLimit(next http.Handler,                       *)
(*                                w http.ResponseWriter, r *http.Request) {*)
(*                     r.Body = http.MaxBytesReader(w, r.Body, 1<<20)      *)
(*                     next.ServeHTTP(w, r)                                *)
(*                 }                                                       *)
(*                 func serve(w http.ResponseWriter, r *http.Request) {    *)
(*                     withLimit(http.HandlerFunc(handler), w, r)          *)
(*                 }                                                       *)
(*   cparse    whether the closure calls the form method on its own r      *)
(*   listed    whether the source functions list the closure next to the   *)
(*             function that makes it, as the SSA builder does             *)
(*   dlimit    whether withLimit assigns r.Body                            *)
(*   dcall     its ServeHTTP call: an interface invocation, a static call  *)
(*             of the method on next.(http.HandlerFunc), or none           *)
(*   drecv     the receiver of that call: next or another handler          *)
(*   dargs     its arguments: w and r, or another writer, or another       *)
(*             request                                                     *)
(***************************************************************************)
ValueNames ==
    << "handler", "middleware", "middleware$1", "register",
       "MaxBytesReader", "method", "Handle", "pick",
       "h.w", "h.r", "h.const", "h.raddr", "h.resp", "h.addr", "h.baddr",
       "h.body", "h.mbr", "h.phi", "h.pick", "h.maddr", "h.other", "h.parse",
       "m.next", "m.cell", "m.aux", "m.const", "m.closure", "m.ct", "m.mi",
       "c.w", "c.r", "c.next", "c.recv", "c.global", "c.const", "c.addr",
       "c.baddr", "c.body", "c.mbr", "c.serve",
       "g.ct", "g.mi", "g.wrap", "g.path", "g.handle",
       "withLimit", "serve", "ServeHTTP",
       "d.next", "d.w", "d.r", "d.const", "d.addr", "d.baddr", "d.body",
       "d.mbr", "d.ta", "d.global", "d.otherw", "d.otherr", "d.serve",
       "s.w", "s.r", "s.ct", "s.mi", "s.call",
       "m.tag", "g.fnvar", "g.fn", "g.bare", "h.ctx", "c.parse" >>

V(name) == CHOOSE i \in 1 .. Len(ValueNames) : ValueNames[i] = name

FunctionNames ==
    {"handler", "middleware", "middleware$1", "register", "MaxBytesReader",
     "method", "Handle", "pick", "withLimit", "serve", "ServeHTTP"}

RequestType == Type(TRUE, "Request", "net/http")

ResponseType == Type(TRUE, "Response", "net/http")

WriterType == Type(FALSE, "ResponseWriter", "net/http")

HandlerType == Type(FALSE, "Handler", "net/http")

ForeignType == Type(TRUE, "Values", "example.com/form")

HandlerFuncType == Type(FALSE, "HandlerFunc", "net/http")

ContextType == Type(FALSE, "Context", "context")

FakeWriterType == Type(FALSE, "ResponseWriter", "example.com/fake")

RequestValueType == Type(FALSE, "Request", "net/http")

\* The sample as it stands.
Sample ==
    [limit |-> "none", callee |-> "ParseForm", recv |-> "param",
     wrapper |-> TRUE, climit |-> TRUE, binding |-> "cell",
     delegate |-> "captured", site |-> "static", params |-> "wr",
     direct |-> FALSE, dlimit |-> TRUE, dcall |-> "invoke",
     drecv |-> "param", dargs |-> "own", cparse |-> FALSE, listed |-> FALSE]

\* The sample with the features of g in place of its own.
With(g) == [k \in DOMAIN Sample |-> IF k \in DOMAIN g THEN g[k] ELSE Sample[k]]

\* The handler and the closure wrapper vary.
ClosureFeatures ==
    {f \in [limit : {"none", "before", "after", "nested"},
            callee : {"ParseForm", "FormValue", "Cookie", "Foreign"},
            recv : {"param", "loop", "other"},
            wrapper : BOOLEAN,
            climit : BOOLEAN,
            binding : {"cell", "direct", "unrelated"},
            delegate : {"captured", "uncaptured", "none"}] :
        \* the middleware only varies where it is used
        ~f.wrapper => f.climit /\ f.binding = "cell" /\ f.delegate = "captured"}

\* The direct wrapper varies; register passes the bare handler.
DirectFeatures ==
    [wrapper : {FALSE}, direct : {TRUE}, dlimit : BOOLEAN,
     dcall : {"invoke", "static", "none"}, drecv : {"param", "other"},
     dargs : {"own", "foreignw", "foreignr"}]

\* The call site of the closure wrapper varies.
SiteFeatures ==
    [site : {"static", "dynamic", "both", "shifted", "misplaced"},
     climit : BOOLEAN, limit : {"none", "before"}]

\* The parameters of the handler vary.
ParamFeatures ==
    [params : {"wr", "rw", "w", "r", "cwr", "fake", "value"},
     limit : {"none", "before"}, wrapper : BOOLEAN]

\* The closure parses the form itself, in a middleware nobody calls.
OutputFeatures ==
    [cparse : {TRUE}, listed : BOOLEAN, climit : {FALSE}, wrapper : {FALSE},
     limit : {"none", "before", "after"}, callee : {"ParseForm", "Cookie"}]

Features ==
    {With(g) : g \in ClosureFeatures} \cup {With(g) : g \in DirectFeatures}
    \cup {With(g) : g \in SiteFeatures} \cup {With(g) : g \in ParamFeatures}
    \cup {With(g) : g \in OutputFeatures}

Typed(kind, t) == [Value(kind, Nil, NoEdges) EXCEPT !.Type = t]

FieldAddrOf(x, field, t) ==
    [Value("FieldAddr", x, NoEdges) EXCEPT !.Field = field, !.Type = t]

StaticCall(fn, args) ==
    [Value("Call", Nil, NoEdges) EXCEPT !.CallValue = fn, !.Args = args]

Invoke(recv, method, args) ==
    [Value("Call", Nil, NoEdges) EXCEPT
        !.CallValue = recv, !.Method = method, !.Args = args]

MakeClosureOf(fn, bindings) ==
    [Value("MakeClosure", Nil, NoEdges) EXCEPT !.Fn = fn, !.Bindings = bindings]

\* The SSA value called name in the program with features f.
Node(f, name) ==
    CASE name \in FunctionNames -> Value("Function", Nil, NoEdges)
      \* handler
      [] name = "h.w" ->
            Typed("Parameter",
                  IF f.params = "fake" THEN FakeWriterType ELSE WriterType)
      [] name = "h.r" ->
            Typed("Parameter",
                  IF f.params = "value" THEN RequestValueType ELSE RequestType)
      [] name = "h.ctx" -> Typed("Parameter", ContextType)
      [] name = "h.raddr" -> FieldAddrOf(V("h.r"), "Response", NoType)
      [] name = "h.resp" ->
            [Value("UnOp", V("h.raddr"), NoEdges) EXCEPT !.Type = ResponseType]
      [] name = "h.addr" ->
            FieldAddrOf(IF f.limit = "nested" THEN V("h.resp") ELSE V("h.r"),
                        "Body", NoType)
      [] name = "h.baddr" -> FieldAddrOf(V("h.r"), "Body", NoType)
      [] name = "h.body" -> Value("UnOp", V("h.baddr"), NoEdges)
      [] name = "h.mbr" ->
            StaticCall(V("MaxBytesReader"),
                       <<V("h.w"), V("h.body"), V("h.const")>>)
      [] name = "h.phi" ->
            [Value("Phi", Nil, <<V("h.const"), V("h.pick")>>)
                EXCEPT !.Type = RequestType]
      [] name = "h.pick" ->
            [StaticCall(V("pick"), <<V("h.phi"), V("h.r")>>)
                EXCEPT !.Type = RequestType]
      [] name = "h.maddr" -> FieldAddrOf(V("h.pick"), "Method", NoType)
      [] name = "h.other" -> Typed("Global", RequestType)
      [] name = "h.parse" ->
            StaticCall(V("method"),
                       << CASE f.recv = "param" -> V("h.r")
                            [] f.recv = "loop" -> V("h.phi")
                            [] OTHER -> V("h.other") >>)
      \* middleware
      [] name = "m.next" -> Typed("Parameter", HandlerType)
      [] name = "m.tag" -> Typed("Parameter", NoType)
      [] name \in {"m.cell", "m.aux"} -> Value("Alloc", Nil, NoEdges)
      [] name = "m.closure" ->
            MakeClosureOf(V("middleware$1"),
                          << CASE f.binding = "cell" -> V("m.cell")
                               [] f.binding = "direct" -> V("m.next")
                               [] OTHER -> V("m.aux") >>)
      [] name = "m.ct" -> Value("ChangeType", V("m.closure"), NoEdges)
      [] name = "m.mi" -> Value("MakeInterface", V("m.ct"), NoEdges)
      \* the closure middleware$1
      [] name = "c.w" -> Typed("Parameter", WriterType)
      [] name = "c.r" -> Typed("Parameter", RequestType)
      [] name = "c.next" -> Value("FreeVar", Nil, NoEdges)
      [] name = "c.recv" -> Value("UnOp", V("c.next"), NoEdges)
      [] name = "c.global" -> Typed("Global", HandlerType)
      [] name \in {"c.addr", "c.baddr"} -> FieldAddrOf(V("c.r"), "Body", NoType)
      [] name = "c.body" -> Value("UnOp", V("c.baddr"), NoEdges)
      [] name = "c.mbr" ->
            StaticCall(V("MaxBytesReader"),
                       <<V("c.w"), V("c.body"), V("c.const")>>)
      [] name = "c.parse" -> StaticCall(V("method"), <<V("c.r")>>)
      [] name = "c.serve" ->
            Invoke(CASE f.delegate = "uncaptured" -> V("c.global")
                     [] f.binding = "direct" -> V("c.next")
                     [] OTHER -> V("c.recv"),
                   "ServeHTTP", <<V("c.w"), V("c.r")>>)
      \* register
      [] name = "g.ct" -> Value("ChangeType", V("handler"), NoEdges)
      [] name = "g.mi" -> Value("MakeInterface", V("g.ct"), NoEdges)
      [] name = "g.fnvar" -> Value("Global", Nil, NoEdges)
      [] name = "g.fn" -> Value("UnOp", V("g.fnvar"), NoEdges)
      [] name = "g.wrap" ->
            StaticCall(IF f.site = "dynamic" THEN V("g.fn")
                       ELSE V("middleware"),
                       CASE f.site = "shifted" -> <<V("g.path"), V("g.mi")>>
                         [] f.site = "misplaced" -> <<V("g.mi"), V("g.path")>>
                         [] OTHER -> <<V("g.mi")>>)
      [] name = "g.bare" -> StaticCall(V("Handle"), <<V("g.path"), V("g.mi")>>)
      [] name = "g.handle" ->
            StaticCall(V("Handle"),
                       <<V("g.path"),
                         IF f.wrapper THEN V("g.wrap") ELSE V("g.mi")>>)
      \* withLimit
      [] name = "d.next" -> Typed("Parameter", HandlerType)
      [] name = "d.w" -> Typed("Parameter", WriterType)
      [] name = "d.r" -> Typed("Parameter", RequestType)
      [] name \in {"d.addr", "d.baddr"} -> FieldAddrOf(V("d.r"), "Body", NoType)
      [] name = "d.body" -> Value("UnOp", V("d.baddr"), NoEdges)
      [] name = "d.mbr" ->
            StaticCall(V("MaxBytesReader"),
                       <<V("d.w"), V("d.body"), V("d.const")>>)
      [] name = "d.global" -> Typed("Global", HandlerType)
      [] name = "d.otherw" -> Typed("Global", WriterType)
      [] name = "d.otherr" -> Typed("Global", RequestType)
      [] name = "d.ta" ->
            [Value("TypeAssert",
                   IF f.drecv = "param" THEN V("d.next") ELSE V("d.global"),
                   NoEdges) EXCEPT !.Type = HandlerFuncType]
      [] name = "d.serve" ->
            IF f.dcall = "static"
            THEN StaticCall(V("ServeHTTP"),
                            <<V("d.ta"),
                              IF f.dargs = "foreignw" THEN V("d.otherw")
                              ELSE V("d.w"),
                              IF f.dargs = "foreignr" THEN V("d.otherr")
                              ELSE V("d.r")>>)
            ELSE Invoke(IF f.drecv = "param" THEN V("d.next")
                        ELSE V("d.global"),
                        "ServeHTTP",
                        <<IF f.dargs = "foreignw" THEN V("d.otherw")
                          ELSE V("d.w"),
                          IF f.dargs = "foreignr" THEN V("d.otherr")
                          ELSE V("d.r")>>)
      \* serve
      [] name = "s.w" -> Typed("Parameter", WriterType)
      [] name = "s.r" -> Typed("Parameter", RequestType)
      [] name = "s.ct" -> Value("ChangeType", V("handler"), NoEdges)
      [] name = "s.mi" -> Value("MakeInterface", V("s.ct"), NoEdges)
      [] name = "s.call" ->
            StaticCall(V("withLimit"), <<V("s.mi"), V("s.w"), V("s.r")>>)
      [] OTHER -> Value("Const", Nil, NoEdges)

GraphOf(f) == [v \in 1 .. Len(ValueNames) |-> Node(f, ValueNames[v])]

\* The instruction that defines the value called name, and a Store.
Def(f, name) == Instr(Node(f, name).kind, V(name), Nil, Nil, name)

StoreOf(addr, val, pos) == Instr("Store", Nil, V(addr), V(val), pos)

LimitInstrs(f, p) ==
    <<Def(f, p \o ".addr"), Def(f, p \o ".baddr"), Def(f, p \o ".body"),
      Def(f, p \o ".mbr"), StoreOf(p \o ".addr", p \o ".mbr", p \o ".setbody")>>

HandlerInstrs(f) ==
    (IF f.recv = "loop"
     THEN <<Def(f, "h.phi"), Def(f, "h.pick"), Def(f, "h.maddr"),
            StoreOf("h.maddr", "h.const", "h.setmethod")>>
     ELSE << >>)
    \o (IF f.limit = "nested"
        THEN <<Def(f, "h.raddr"), Def(f, "h.resp")>> ELSE << >>)
    \o (IF f.limit \in {"before", "nested"} THEN LimitInstrs(f, "h") ELSE << >>)
    \o <<Def(f, "h.parse")>>
    \o (IF f.limit = "after" THEN LimitInstrs(f, "h") ELSE << >>)

MiddlewareInstrs(f) ==
    (IF f.binding = "direct" THEN << >>
     ELSE <<Def(f, "m.cell"), StoreOf("m.cell", "m.next", "m.setcell")>>)
    \o (IF f.binding = "unrelated"
        THEN <<Def(f, "m.aux"), StoreOf("m.aux", "m.const", "m.setaux")>>
        ELSE << >>)
    \o <<Def(f, "m.closure"), Def(f, "m.ct"), Def(f, "m.mi")>>

ClosureInstrs(f) ==
    (IF f.climit THEN LimitInstrs(f, "c") ELSE << >>)
    \o (IF f.cparse THEN <<Def(f, "c.parse")>> ELSE << >>)
    \o (IF f.delegate = "captured" /\ f.binding # "direct"
        THEN <<Def(f, "c.recv")>> ELSE << >>)
    \o (IF f.delegate = "none" THEN << >> ELSE <<Def(f, "c.serve")>>)

RegisterInstrs(f) ==
    <<Def(f, "g.ct"), Def(f, "g.mi")>>
    \o (IF f.site = "both" THEN <<Def(f, "g.bare")>> ELSE << >>)
    \o (IF f.site = "dynamic" THEN <<Def(f, "g.fn")>> ELSE << >>)
    \o (IF f.wrapper THEN <<Def(f, "g.wrap")>> ELSE << >>)
    \o <<Def(f, "g.handle")>>

WithLimitInstrs(f) ==
    (IF f.dlimit THEN LimitInstrs(f, "d") ELSE << >>)
    \o (IF f.dcall = "static" THEN <<Def(f, "d.ta")>> ELSE << >>)
    \o (IF f.dcall = "none" THEN << >> ELSE <<Def(f, "d.serve")>>)

ServeInstrs(f) == <<Def(f, "s.ct"), Def(f, "s.mi"), Def(f, "s.call")>>

HandlerParams(f) ==
    CASE f.params = "rw" -> <<V("h.r"), V("h.w")>>
      [] f.params = "w" -> <<V("h.w")>>
      [] f.params = "r" -> <<V("h.r")>>
      [] f.params = "cwr" -> <<V("h.ctx"), V("h.w"), V("h.r")>>
      [] OTHER -> <<V("h.w"), V("h.r")>>

\* A function of another package: no parameters and no body.
External(name, pkg, recv) ==
    Function(name, pkg, recv, << >>, << >>, << >>, << >>)

FunctionOf(f, name) ==
    CASE name = "handler" ->
            Function("handler", "main", NoType, HandlerParams(f),
                     << >>, << >>, HandlerInstrs(f))
      [] name = "middleware" ->
            Function("middleware", "main", NoType,
                     IF f.site \in {"shifted", "misplaced"}
                     THEN <<V("m.tag"), V("m.next")>> ELSE <<V("m.next")>>,
                     << >>, <<V("middleware$1")>>, MiddlewareInstrs(f))
      [] name = "middleware$1" ->
            Function("middleware$1", "main", NoType, <<V("c.w"), V("c.r")>>,
                     <<V("c.next")>>, << >>, ClosureInstrs(f))
      [] name = "register" ->
            Function("register", "main", NoType, << >>, << >>, << >>,
                     RegisterInstrs(f))
      [] name = "MaxBytesReader" ->
            External("MaxBytesReader", "net/http", NoType)
      [] name = "method" ->
            IF f.callee = "Foreign"
            THEN External("ParseForm", "example.com/form", ForeignType)
            ELSE External(f.callee, "net/http", RequestType)
      [] name = "Handle" -> External("Handle", "net/http", NoType)
      [] name = "withLimit" ->
            Function("withLimit", "main", NoType,
                     <<V("d.next"), V("d.w"), V("d.r")>>, << >>, << >>,
                     WithLimitInstrs(f))
      [] name = "serve" ->
            Function("serve", "main", NoType, <<V("s.w"), V("s.r")>>,
                     << >>, << >>, ServeInstrs(f))
      [] name = "ServeHTTP" ->
            External("ServeHTTP", "net/http", HandlerFuncType)
      [] OTHER -> External("pick", "example.com/util", NoType)

ProgramOf(f) ==
    [ssa |-> TRUE,
     srcFuncs |-> <<V("middleware")>>
                  \o (IF f.listed THEN <<V("middleware$1")>> ELSE << >>)
                  \o <<V("handler"), V("register")>>
                  \o (IF f.direct THEN <<V("withLimit"), V("serve")>>
                      ELSE << >>),
     fn |-> [v \in {V(n) : n \in FunctionNames} |->
                FunctionOf(f, ValueNames[v])]]

(***************************************************************************)
(* isProtectedByWrapperCall and wrapperProtectsParamHandler.               *)
(***************************************************************************)
\* The bindings of makeClosure from index b on: one depends on
\* handlerParam and the closure delegates to the free variable of its
\* index.
RECURSIVE BindingProtectsFrom(_, _, _, _, _, _)
BindingProtectsFrom(makeClosure, closureFn, b, handlerParam, ps, m) ==
    IF b > Len(graph[makeClosure].Bindings) THEN R(FALSE, m)
    ELSE Either(
            Both(bindingDependsOnValue(graph[makeClosure].Bindings[b],
                                       handlerParam, m),
                 LAMBDA m1 : closureDelegatesWithRequestLimit(
                                 closureFn, b, ps.request, ps.writer, m1)),
            LAMBDA m2 : BindingProtectsFrom(makeClosure, closureFn, b + 1,
                                            handlerParam, ps, m2))

\* One instruction of the wrapper: a MakeClosure of a handler that bounds
\* the request body and has such a binding.
ClosureProtects(instr, handlerParam, m) ==
    IF instr.op # "MakeClosure" THEN R(FALSE, m)
    ELSE LET closureFn == graph[instr.v].Fn
             ps == findHandlerRequestAndWriterParams(closureFn)
         IN  IF closureFn = Nil \/ graph[closureFn].kind # "Function"
             THEN R(FALSE, m)
             ELSE IF ps.request = Nil \/ ps.writer = Nil THEN R(FALSE, m)
             ELSE Both(functionHasRequestBodyLimit(closureFn, ps.request,
                                                   ps.writer, m),
                       LAMBDA m1 : BindingProtectsFrom(instr.v, closureFn, 1,
                                                       handlerParam, ps, m1))

RECURSIVE ClosureProtectsFrom(_, _, _, _)
ClosureProtectsFrom(wrapper, i, handlerParam, m) ==
    IF i > Len(prog.fn[wrapper].instrs) THEN R(FALSE, m)
    ELSE Either(ClosureProtects(prog.fn[wrapper].instrs[i], handlerParam, m),
                LAMBDA m2 : ClosureProtectsFrom(wrapper, i + 1, handlerParam,
                                                m2))

wrapperProtectsParamHandler(wrapper, paramIndex, m) ==
    IF wrapper = Nil \/ paramIndex < 1
       \/ paramIndex > Len(prog.fn[wrapper].params)
    THEN R(FALSE, m)
    ELSE Either(wrapperDelegatesWithRequestLimit(
                    wrapper, prog.fn[wrapper].params[paramIndex], m),
                LAMBDA m2 : ClosureProtectsFrom(
                                wrapper, 1,
                                prog.fn[wrapper].params[paramIndex], m2))

\* The arguments of one call from index argIndex on: one depends on the
\* handler and the wrapper protects the parameter of its index.
RECURSIVE ArgProtectsFrom(_, _, _, _, _)
ArgProtectsFrom(call, wrapper, argIndex, handler, m) ==
    IF argIndex > Len(graph[call].Args) THEN R(FALSE, m)
    ELSE Either(
            Both(DependsOn(graph[call].Args[argIndex], handler, m),
                 LAMBDA m1 : wrapperProtectsParamHandler(wrapper, argIndex,
                                                         m1)),
            LAMBDA m2 : ArgProtectsFrom(call, wrapper, argIndex + 1, handler,
                                        m2))

\* One instruction: a call with a static callee and such an argument.
CallProtects(instr, handler, m) ==
    IF ~IsCallInstruction(instr) THEN R(FALSE, m)
    ELSE IF StaticCallee(instr.v) = Nil THEN R(FALSE, m)
    ELSE ArgProtectsFrom(instr.v, StaticCallee(instr.v), 1, handler, m)

\* isProtectedByWrapperCall deciding on the first call site: the first
\* call with a static callee answers for all the others.
RECURSIVE CallProtectsFrom_FirstSite(_, _, _, _, _)
CallProtectsFrom_FirstSite(allFuncs, k, i, handler, m) ==
    IF k > Len(allFuncs) THEN R(FALSE, m)
    ELSE IF allFuncs[k] = Nil \/ i > Len(prog.fn[allFuncs[k]].instrs)
         THEN CallProtectsFrom_FirstSite(allFuncs, k + 1, 1, handler, m)
         ELSE IF /\ IsCallInstruction(prog.fn[allFuncs[k]].instrs[i])
                 /\ StaticCallee(prog.fn[allFuncs[k]].instrs[i].v) # Nil
              THEN CallProtects(prog.fn[allFuncs[k]].instrs[i], handler, m)
              ELSE CallProtectsFrom_FirstSite(allFuncs, k, i + 1, handler, m)

\* The instructions of allFuncs[k] from instruction i on, then the
\* functions after it.
RECURSIVE CallProtectsFrom(_, _, _, _, _)
CallProtectsFrom(allFuncs, k, i, handler, m) ==
    IF k > Len(allFuncs) THEN R(FALSE, m)
    ELSE IF allFuncs[k] = Nil \/ i > Len(prog.fn[allFuncs[k]].instrs)
         THEN CallProtectsFrom(allFuncs, k + 1, 1, handler, m)
         ELSE Either(CallProtects(prog.fn[allFuncs[k]].instrs[i], handler, m),
                     LAMBDA m2 : CallProtectsFrom(allFuncs, k, i + 1, handler,
                                                  m2))

isProtectedByWrapperCall(handler, allFuncs, m) ==
    CallProtectsFrom(allFuncs, 1, 1, handler, m)

(***************************************************************************)
(* runFormParsingLimitAnalysis, one function of the program per step:      *)
(* first the loop of computeFormParsingHandlerProtection, then the scan    *)
(* for risky calls, then the return.                                       *)
(***************************************************************************)
AllFuncs == collectAnalyzerFunctions(prog.srcFuncs)

\* addRedirectIssue: one issue for each position.
addRedirectIssue(issuesByPos, pos) == issuesByPos \cup {pos}

IsHandler(fn) ==
    LET ps == findHandlerRequestAndWriterParams(fn) IN
    ps.request # Nil /\ ps.writer # Nil

\* The body of the protection loop for fn: the verdict, whether it came
\* from fn's own body, and the memo.
Verdict(r, direct) == [result |-> r.result, direct |-> direct, memo |-> r.memo]

WrapperVerdict(l, fn) ==
    IF l.result THEN Verdict(l, TRUE)
    ELSE Verdict(isProtectedByWrapperCall(fn, AllFuncs, l.memo), FALSE)

HandlerProtection(fn, m) ==
    WrapperVerdict(
        functionHasRequestBodyLimit(
            fn, findHandlerRequestAndWriterParams(fn).request,
            findHandlerRequestAndWriterParams(fn).writer, m),
        fn)

\* The scan of fn from instruction i on: the issues and the memo.
RECURSIVE ScanFrom(_, _, _, _, _)
RECURSIVE Scanned(_, _, _, _, _)
ScanFrom(fn, i, requestParam, issuesByPos, m) ==
    IF i > Len(prog.fn[fn].instrs) THEN [issues |-> issuesByPos, memo |-> m]
    ELSE IF ~IsCallInstruction(prog.fn[fn].instrs[i])
         THEN ScanFrom(fn, i + 1, requestParam, issuesByPos, m)
         ELSE Scanned(isRiskyFormParsingCall(prog.fn[fn].instrs[i],
                                             requestParam, m),
                      fn, i, requestParam, issuesByPos)

\* The call at i answered risky: report it if so, and go on.
Scanned(risky, fn, i, requestParam, issuesByPos) ==
    ScanFrom(fn, i + 1, requestParam,
             IF risky.result
             THEN addRedirectIssue(issuesByPos, prog.fn[fn].instrs[i].pos)
             ELSE issuesByPos,
             risky.memo)

\* Output with an empty issue slice in place of nil.
Output_NeverNil(issuesByPos, list, err) ==
    [returned |-> ~err, issues |-> issuesByPos, list |-> list, err |-> err]

\* What the run returns: whether the result is non-nil, the issues of
\* the result as a set and in the order of the slice, and whether the
\* error is non-nil.
Output(issuesByPos, list, err) ==
    [returned |-> issuesByPos # {}, issues |-> issuesByPos, list |-> list,
     err |-> err]

NoOutput == Output({}, << >>, FALSE)

\* A pass whose SSA result has no source functions, and a pass without
\* SSA result.
EmptySSA == [ssa |-> TRUE, srcFuncs |-> << >>, fn |-> << >>]

MissingSSA == [ssa |-> FALSE, srcFuncs |-> << >>, fn |-> << >>]

\* ssautil.GetSSAResult: the error is non-nil when the pass holds no SSA
\* result.
GetSSAResult(pass) == [err |-> ~pass.ssa]

\* The orders in which a range over a map with these keys can yield them.
Orderings(keys) ==
    {l \in [1 .. Cardinality(keys) -> keys] :
        \A i, j \in 1 .. Cardinality(keys) : l[i] = l[j] => i = j}

\* The issues slice cut after the first issue the range yields.
IssueLists_FirstOnly(issuesByPos) ==
    IF issuesByPos = {} THEN {<< >>} ELSE {<<k>> : k \in issuesByPos}

\* The issues slice with every issue appended twice.
IssueLists_Twice(issuesByPos) == {l \o l : l \in Orderings(issuesByPos)}

\* The issues slice: the values of issuesByPos, one append for each key.
IssueLists(issuesByPos) == Orderings(issuesByPos)

AnalysisInit ==
    /\ \/ \E f \in Features : graph = GraphOf(f) /\ prog = ProgramOf(f)
       \/ graph = GraphOf(Sample) /\ prog \in {EmptySSA, MissingSSA}
    /\ memo = EmptyMemo
    /\ visiting = {}
    /\ stack = << >>
    /\ query = NoQuery
    /\ done = FALSE
    /\ result = FALSE
    /\ ret = NoReturn
    /\ entryMemo = EmptyMemo
    /\ first = EmptyMemo
    /\ run = [phase |-> "start", i |-> 1, protection |-> {}, direct |-> {},
              issues |-> {}, out |-> NoOutput]

\* Start with the error of GetSSAResult dropped: the run goes on with
\* whatever functions the pass holds.
Start_ErrorDropped ==
    /\ run.phase = "start"
    /\ run' = [run EXCEPT !.phase = "protect"]
    /\ UNCHANGED <<graph, prog, memo, checkerVars>>

\* The SSA result is fetched: without it the run returns the error.
Start ==
    /\ run.phase = "start"
    /\ run' = IF GetSSAResult(prog).err
              THEN [run EXCEPT !.phase = "done",
                               !.out = Output({}, << >>, TRUE)]
              ELSE [run EXCEPT !.phase = "protect"]
    /\ UNCHANGED <<graph, prog, memo, checkerVars>>

\* The loop variable moves on.
NextFn(r) == [r EXCEPT !.i = r.i + 1]

Protect(p, fn) ==
    /\ run' = [NextFn(run) EXCEPT
                  !.protection = IF p.result THEN @ \cup {fn} ELSE @,
                  !.direct = IF p.direct THEN @ \cup {fn} ELSE @]
    /\ memo' = p.memo

ProtectFn ==
    /\ run.phase = "protect"
    /\ run.i <= Len(AllFuncs)
    /\ IF ~IsHandler(AllFuncs[run.i])
       THEN run' = NextFn(run) /\ memo' = memo
       ELSE Protect(HandlerProtection(AllFuncs[run.i], memo), AllFuncs[run.i])
    /\ UNCHANGED <<graph, prog, checkerVars>>

ProtectDone ==
    /\ run.phase = "protect"
    /\ run.i > Len(AllFuncs)
    /\ run' = [run EXCEPT !.phase = "scan", !.i = 1]
    /\ UNCHANGED <<graph, prog, memo, checkerVars>>

Scan(s) ==
    /\ run' = [NextFn(run) EXCEPT !.issues = s.issues]
    /\ memo' = s.memo

ScanFn ==
    /\ run.phase = "scan"
    /\ run.i <= Len(AllFuncs)
    /\ IF ~IsHandler(AllFuncs[run.i]) \/ AllFuncs[run.i] \in run.protection
       THEN run' = NextFn(run) /\ memo' = memo
       ELSE Scan(ScanFrom(AllFuncs[run.i], 1,
                          findHandlerRequestAndWriterParams(
                              AllFuncs[run.i]).request,
                          run.issues, memo))
    /\ UNCHANGED <<graph, prog, checkerVars>>

\* len(issuesByPos) = 0 returns nil, anything else the issues.
Finish ==
    /\ run.phase = "scan"
    /\ run.i > Len(AllFuncs)
    /\ \E list \in IssueLists(run.issues) :
            run' = [run EXCEPT !.phase = "done",
                               !.out = Output(run.issues, list, FALSE)]
    /\ UNCHANGED <<graph, prog, memo, checkerVars>>

AnalysisNext == Start \/ ProtectFn \/ ProtectDone \/ ScanFn \/ Finish

AnalysisSpec == AnalysisInit /\ [][AnalysisNext]_vars

\* The analyzer is run once more on the same pass: a new checker and a new
\* issue map; prev keeps what the first run returned.
Rerun ==
    /\ run.phase = "done"
    /\ "prev" \notin DOMAIN run
    /\ run' = [phase |-> "start", i |-> 1, protection |-> {}, direct |-> {},
               issues |-> {}, out |-> NoOutput, prev |-> run.out]
    /\ memo' = EmptyMemo
    /\ UNCHANGED <<graph, prog, checkerVars>>

TwiceNext == AnalysisNext \/ Rerun

TwiceSpec == AnalysisInit /\ [][TwiceNext]_vars

(***************************************************************************)
(* isMaxBytesReaderValue on the values a Store may hold.  The graph is a   *)
(* call under a tower of MaxDepth + 1 wrapping values:                     *)
(*   1 w   2 r   3 r.Body   4 a constant   5 another writer                *)
(*   6 net/http.MaxBytesReader   7 a MaxBytesReader of another package     *)
(*   8 the call   9 .. 9 + MaxDepth the wrappers, each around the value    *)
(*   before it                                                             *)
(***************************************************************************)
BaseValue == {8}

Wrappers == 9 .. 9 + MaxDepth

\* The calls at the bottom: the qualifying one, one on another writer, one
\* with two arguments, one of another package's function, a dynamic one,
\* and a value that is no call.
BaseCalls ==
    {StaticCall(6, <<1, 3, 4>>), StaticCall(6, <<5, 3, 4>>),
     StaticCall(6, <<1, 3>>), StaticCall(7, <<1, 3, 4>>),
     Invoke(5, "Wrap", <<1, 3, 4>>), Value("UnOp", 3, NoEdges)}

WrapperKinds ==
    {"ChangeType", "MakeInterface", "TypeAssert", "Convert",
     "Phi", "PhiLoop", "PhiCycle"}

\* The wrapper v of this kind around x: a conversion of x, a Phi of the
\* constant and x, a Phi of the wrapper above v (of v itself at the top)
\* and x, or a Phi of the wrapper above only.
Wrapper(kind, v, x) ==
    LET up == IF v + 1 \in Wrappers THEN v + 1 ELSE v IN
    CASE kind = "Phi" -> Value("Phi", Nil, <<4, x>>)
      [] kind = "PhiLoop" -> Value("Phi", Nil, <<up, x>>)
      [] kind = "PhiCycle" -> Value("Phi", Nil, <<up>>)
      [] OTHER -> Value(kind, x, NoEdges)

UnwrapGraphs ==
    {[v \in 1 .. 9 + MaxDepth |->
        CASE v \in {1, 5} -> Typed("Parameter", WriterType)
          [] v = 2 -> Typed("Parameter", RequestType)
          [] v = 3 -> Value("UnOp", 2, NoEdges)
          [] v = 4 -> Value("Const", Nil, NoEdges)
          [] v \in {6, 7} -> Value("Function", Nil, NoEdges)
          [] v = 8 -> base
          [] OTHER -> Wrapper(kinds[v], v, v - 1)] :
        base \in BaseCalls, kinds \in [Wrappers -> WrapperKinds]}

UnwrapProgram ==
    [ssa |-> TRUE, srcFuncs |-> << >>,
     fn |-> [v \in {6, 7} |->
                External("MaxBytesReader",
                         IF v = 6 THEN "net/http" ELSE "example.com/limit",
                         NoType)]]

UnwrapInit ==
    /\ graph \in UnwrapGraphs
    /\ prog = UnwrapProgram
    /\ run = [phase |-> "store", val |-> Nil, accepted |-> FALSE]
    /\ memo = EmptyMemo
    /\ visiting = {}
    /\ stack = << >>
    /\ query = NoQuery
    /\ done = FALSE
    /\ result = FALSE
    /\ ret = NoReturn
    /\ entryMemo = EmptyMemo
    /\ first = EmptyMemo

Judged(val, r) ==
    /\ run' = [phase |-> "done", val |-> val, accepted |-> r.result]
    /\ memo' = r.memo
    /\ UNCHANGED <<graph, prog, checkerVars>>

\* The value of a Store into r.Body is judged, as
\* isRequestBodyStoreFromMaxBytesReader does, at depth 0.
JudgeStore ==
    /\ run.phase = "store"
    /\ \E val \in BaseValue \cup Wrappers \cup {Nil} :
            Judged(val, isMaxBytesReaderValue(val, 2, 1, memo, 0))

UnwrapSpec == UnwrapInit /\ [][JudgeStore]_vars

(***************************************************************************)
(* The guard check of the taint engine.  A sink call is judged in two      *)
(* steps: guardsSatisfied on its arguments, then the taint of the          *)
(* inspected arguments.  Here prog is the ssa.Program the analyzer was     *)
(* given (or nil), graph the values the calls pass, and run the call,      *)
(* the sink and the findings.  A qualified type name is the sequence of    *)
(* its dot-separated segments.                                             *)
(***************************************************************************)
\* The type-name and variable objects of the packages, each type with the
\* methods of its interface or of its pointer receiver.
TypeName(iface, methods) == [kind |-> "type", iface |-> iface, methods |-> methods]

VarName == [kind |-> "var", iface |-> FALSE, methods |-> {}]

Scope(path) ==
    CASE path = <<"net/http">> ->
            [n \in {"ResponseWriter", "DefaultClient"} |->
                IF n = "ResponseWriter"
                THEN TypeName(TRUE, {"Header", "Write", "WriteHeader"})
                ELSE VarName]
      [] path = <<"io">> ->
            [n \in {"Writer", "Closer"} |->
                IF n = "Writer" THEN TypeName(TRUE, {"Write"})
                ELSE TypeName(TRUE, {"Close"})]
      [] path = <<"os">> ->
            [n \in {"File", "Stdout"} |->
                IF n = "File" THEN TypeName(FALSE, {"Write", "Close", "Read"})
                ELSE VarName]
      [] path = <<"any/pkg">> -> [n \in {"AnyType"} |-> TypeName(TRUE, {})]
      [] path = <<"myapp">> -> [n \in {"MyStruct"} |-> TypeName(FALSE, {})]
      [] path = <<"example", "com/web">> ->
            [n \in {"Recorder"} |->
                TypeName(FALSE, {"Header", "Write", "WriteHeader"})]
      [] OTHER -> [n \in {} |-> VarName]

AllPackages ==
    {<<"net/http">>, <<"io">>, <<"os">>, <<"any/pkg">>, <<"myapp">>,
     <<"example", "com/web">>}

\* The package path of a sequence of segments.
RECURSIVE JoinPath(_)
JoinPath(path) ==
    IF Len(path) = 1 THEN path[1]
    ELSE JoinPath(SubSeq(path, 1, Len(path) - 1)) \o "." \o path[Len(path)]

\* The segments of a package path.
PathOf(pkg) ==
    IF \E path \in AllPackages : JoinPath(path) = pkg
    THEN CHOOSE path \in AllPackages : JoinPath(path) = pkg
    ELSE << >>

\* A nil *ssa.Program, and a program holding some packages.
NilProg == [nil |-> TRUE, packages |-> {}]

Program(packages) == [nil |-> FALSE, packages |-> packages]

\* lookupNamedType: the name is split at its last dot into package path
\* and type name; the package must be in the program and hold a
\* type-name object of that name.  NoType when any step fails.
lookupNamedType(qualified, p) ==
    IF Len(qualified) < 2 THEN NoType
    ELSE LET path == SubSeq(qualified, 1, Len(qualified) - 1)
             name == qualified[Len(qualified)]
         IN  IF path \notin p.packages THEN NoType
             ELSE IF name \notin DOMAIN Scope(path) THEN NoType
             ELSE IF Scope(path)[name].kind # "type" THEN NoType
             ELSE Type(FALSE, name, JoinPath(path))

\* The declaration of a named type, and the method set of a type: an
\* interface has its methods, a pointer to a named struct the methods of
\* the pointer receiver, anything else none.
Decl(t) ==
    IF PathOf(t.pkg) = << >> \/ t.name \notin DOMAIN Scope(PathOf(t.pkg))
    THEN VarName
    ELSE Scope(PathOf(t.pkg))[t.name]

MethodSet(t) ==
    IF Decl(t).kind # "type" THEN {}
    ELSE IF Decl(t).iface THEN (IF t.ptr THEN {} ELSE Decl(t).methods)
    ELSE IF t.ptr THEN Decl(t).methods ELSE {}

\* satisfies: an interface is satisfied by a type whose method set holds
\* its methods, any other type by itself and by a pointer to it.
satisfies(required, actual) ==
    IF Decl(required).iface
    THEN Decl(required).methods \subseteq MethodSet(actual)
    ELSE actual = required \/ actual = [required EXCEPT !.ptr = TRUE]

\* resolveOriginalType without the unwrapping: the static type of the
\* value.
resolveOriginalType_StaticType(v) == graph[v].Type

\* resolveOriginalType: the type of the operand of a MakeInterface or a
\* ChangeInterface, the type of any other value.
resolveOriginalType(v) ==
    IF graph[v].kind \in {"MakeInterface", "ChangeInterface"}
    THEN graph[graph[v].X].Type
    ELSE graph[v].Type

\* A sink of the configuration; ArgTypeGuards maps argument indices
\* (from 0) to qualified type names, CheckArgs is the set of indices to
\* inspect, empty for all.
Sink(package, method, guards, checkArgs) ==
    [Package |-> package, Method |-> method, ArgTypeGuards |-> guards,
     CheckArgs |-> checkArgs]

\* guardsSatisfied with a sink without guards never satisfied.
guardsSatisfied_NoGuardsFail(args, sink, p) ==
    /\ DOMAIN sink.ArgTypeGuards # {}
    /\ \/ p.nil
       \/ \A i \in DOMAIN sink.ArgTypeGuards :
            /\ i >= 0 /\ i < Len(args)
            /\ lookupNamedType(sink.ArgTypeGuards[i], p) # NoType
            /\ satisfies(lookupNamedType(sink.ArgTypeGuards[i], p),
                         resolveOriginalType(args[i + 1]))

\* guardsSatisfied with a nil program failing the guards.
guardsSatisfied_NilProgFails(args, sink, p) ==
    \/ DOMAIN sink.ArgTypeGuards = {}
    \/ /\ ~p.nil
       /\ \A i \in DOMAIN sink.ArgTypeGuards :
            /\ i >= 0 /\ i < Len(args)
            /\ lookupNamedType(sink.ArgTypeGuards[i], p) # NoType
            /\ satisfies(lookupNamedType(sink.ArgTypeGuards[i], p),
                         resolveOriginalType(args[i + 1]))

\* guardsSatisfied: no guards, or no program, or every guarded argument
\* exists and its original type satisfies the required type, which the
\* program must hold.
guardsSatisfied(args, sink, p) ==
    \/ DOMAIN sink.ArgTypeGuards = {}
    \/ p.nil
    \/ \A i \in DOMAIN sink.ArgTypeGuards :
            /\ i >= 0 /\ i < Len(args)
            /\ lookupNamedType(sink.ArgTypeGuards[i], p) # NoType
            /\ satisfies(lookupNamedType(sink.ArgTypeGuards[i], p),
                         resolveOriginalType(args[i + 1]))

StringType == Type(FALSE, "string", "")

IoWriterType == Type(FALSE, "Writer", "io")

\* The values the sink calls pass:
\*   1  w, a parameter of type net/http.ResponseWriter
\*   2  w converted to io.Writer               (ChangeInterface)
\*   3  os.Stdout, a *os.File
\*   4  os.Stdout boxed into io.Writer         (MakeInterface)
\*   5  outW, a parameter of type io.Writer
\*   6  a string constant
\*   7  a *web.Recorder, which has the methods of ResponseWriter
\*   8  the recorder boxed into io.Writer      (MakeInterface)
\*   9  a myapp.MyStruct, 10 a *myapp.MyStruct
\*   11 the data written
GuardGraph ==
    <<Typed("Parameter", WriterType),
      [Value("ChangeInterface", 1, NoEdges) EXCEPT !.Type = IoWriterType],
      Typed("UnOp", Type(TRUE, "File", "os")),
      [Value("MakeInterface", 3, NoEdges) EXCEPT !.Type = IoWriterType],
      Typed("Parameter", IoWriterType),
      Typed("Const", StringType),
      Typed("Alloc", Type(TRUE, "Recorder", "example.com/web")),
      [Value("MakeInterface", 7, NoEdges) EXCEPT !.Type = IoWriterType],
      Typed("Call", Type(FALSE, "MyStruct", "myapp")),
      Typed("Alloc", Type(TRUE, "MyStruct", "myapp")),
      Typed("Call", StringType)>>

FirstArgs == {2, 4, 5, 6, 8, 9, 10}

ArgLists == {<< >>} \cup {<<a>> : a \in FirstArgs} \cup {<<a, 11>> : a \in FirstArgs}

NoGuards == [i \in {} |-> << >>]

Guard(i, qualified) == [k \in {i} |-> qualified]

GuardSets ==
    {NoGuards,
     Guard(0, <<"net/http", "ResponseWriter">>),
     Guard(0, <<"missing/pkg", "Type">>),
     Guard(0, <<"io", "Closer">>),
     Guard(0, <<"any/pkg", "AnyType">>),
     Guard(0, <<"myapp", "MyStruct">>),
     Guard(0, <<"example", "com/web", "Recorder">>),
     Guard(0, <<"net/http", "DefaultClient">>),
     Guard(0, <<"ResponseWriter">>),
     Guard(1, <<"any/pkg", "AnyType">>),
     Guard(0, <<"net/http", "ResponseWriter">>) @@ Guard(1, <<"io", "Closer">>)}

GuardPrograms ==
    {NilProg, Program({}), Program(AllPackages), Program({<<"io">>})}

Callee(pkg, name) == [pkg |-> pkg, name |-> name]

GuardInit ==
    /\ graph = GuardGraph
    /\ prog \in GuardPrograms
    /\ \E args \in ArgLists, guards \in GuardSets,
          tainted \in {{}, {1}, {0, 1}}, name \in {"Fprint", "Sprint"} :
            run = [phase |-> "call", callee |-> Callee("fmt", name),
                   args |-> args, sink |-> Sink("fmt", "Fprint", guards, {}),
                   tainted |-> tainted, guarded |-> FALSE, findings |-> {}]
    /\ memo = EmptyMemo
    /\ visiting = {}
    /\ stack = << >>
    /\ query = NoQuery
    /\ done = FALSE
    /\ result = FALSE
    /\ ret = NoReturn
    /\ entryMemo = EmptyMemo
    /\ first = EmptyMemo

\* The static callee is the sink's function.
MatchesSink(callee, sink) ==
    callee.pkg = sink.Package /\ callee.name = sink.Method

\* The argument indices the sink inspects.
Inspected(args, sink) ==
    IF sink.CheckArgs = {} THEN 0 .. Len(args) - 1
    ELSE sink.CheckArgs \cap (0 .. Len(args) - 1)

\* The call is matched against the sink and its guards are checked: a
\* call that is not the sink's, or whose guards fail, is done with.
CheckGuards ==
    /\ run.phase = "call"
    /\ run' = IF /\ MatchesSink(run.callee, run.sink)
                 /\ guardsSatisfied(run.args, run.sink, prog)
              THEN [run EXCEPT !.phase = "taint", !.guarded = TRUE]
              ELSE [run EXCEPT !.phase = "done"]
    /\ UNCHANGED <<graph, prog, memo, checkerVars>>

\* A finding at the call when an inspected argument is tainted.
CheckTaint ==
    /\ run.phase = "taint"
    /\ run' = [run EXCEPT
                  !.phase = "done",
                  !.findings = IF Inspected(run.args, run.sink) \cap run.tainted # {}
                               THEN {"call"} ELSE {}]
    /\ UNCHANGED <<graph, prog, memo, checkerVars>>

GuardNext == CheckGuards \/ CheckTaint

GuardSpec == GuardInit /\ [][GuardNext]_vars

(***************************************************************************)
(* The taint propagator.  graph holds the values of a handler and of the   *)
(* functions it calls, run the configuration, the handler's instructions   *)
(* and the findings.  A call names its static callee in Fn.                *)
(***************************************************************************)
Source(package, name, pointer, isFunc) ==
    [Package |-> package, Name |-> name, Pointer |-> pointer, IsFunc |-> isFunc]

NoCallee == Callee("", "")

\* The sources, the sanitizers and the sink of the XSS and SSRF rules the
\* samples run under.
TaintSources ==
    {Source("net/http", "Request", TRUE, FALSE),
     Source("os", "Getenv", FALSE, TRUE)}

TaintSanitizers ==
    {Callee("html", "EscapeString"), Callee("strconv", "Atoi"),
     Callee("encoding/json", "Marshal")}

\* isContextType: the named type Context of package context, or a pointer
\* to it.
\* isContextType without the pointer stripping.
isContextType_NoPointer(t) == t.name = "Context" /\ t.pkg = "context" /\ ~t.ptr

isContextType(t) == t.name = "Context" /\ t.pkg = "context"

\* TaintOperands without the operand of a conversion.
TaintOperands_NoConvert(v) ==
    LET n == graph[v] IN
    CASE n.kind \in {"ChangeType", "MakeInterface", "ChangeInterface",
                     "TypeAssert", "UnOp", "FieldAddr", "Field"} -> <<n.X>>
      [] n.kind \in {"IndexAddr", "Index"} -> NonNil(<<n.X, n.Index>>)
      [] n.kind = "Slice" -> <<n.X>> \o NonNil(<<n.Low, n.High, n.Max>>)
      [] n.kind = "Extract" -> <<n.Tuple>>
      [] n.kind = "Phi" -> n.Edges
      [] n.kind = "Call" -> NonNil(<<n.CallValue>>) \o n.Args
      [] OTHER -> NoEdges

\* The operands taint flows through: those of the dependency walk, and the
\* operand of a conversion.
TaintOperands(v) ==
    LET n == graph[v] IN
    CASE n.kind \in {"ChangeType", "MakeInterface", "ChangeInterface",
                     "TypeAssert", "UnOp", "FieldAddr", "Field", "Convert"} ->
            <<n.X>>
      [] n.kind \in {"IndexAddr", "Index"} -> NonNil(<<n.X, n.Index>>)
      [] n.kind = "Slice" -> <<n.X>> \o NonNil(<<n.Low, n.High, n.Max>>)
      [] n.kind = "Extract" -> <<n.Tuple>>
      [] n.kind = "Phi" -> n.Edges
      [] n.kind = "Call" -> NonNil(<<n.CallValue>>) \o n.Args
      [] OTHER -> NoEdges

\* A parameter of a source type, or a call of a source function.
isSourceValue(v, sources) ==
    LET n == graph[v] IN
    \/ /\ n.kind = "Parameter"
       /\ \E s \in sources :
            /\ ~s.IsFunc
            /\ n.Type.name = s.Name /\ n.Type.pkg = s.Package
            /\ n.Type.ptr => s.Pointer
    \/ /\ n.kind = "Call"
       /\ \E s \in sources :
            s.IsFunc /\ n.Fn = Callee(s.Package, s.Name)

isSanitizerCall_Never(v, sanitizers) == FALSE

isSanitizerCall(v, sanitizers) ==
    graph[v].kind = "Call" /\ graph[v].Fn \in sanitizers

\* The functions of the program that have a body: their parameters and the
\* values they return.
Body(params, returns) == [params |-> params, returns |-> returns]

\* The taintedness test.  visiting breaks cycles; bound holds the formal
\* parameters the enclosing call passes tainted arguments to.
RECURSIVE isTainted(_, _, _, _)
isTainted(v, visiting_, bound, c) ==
    IF v = Nil \/ v \in visiting_ THEN FALSE
    ELSE IF isContextType(graph[v].Type) THEN FALSE
    ELSE IF v \in bound \/ isSourceValue(v, c.sources) THEN TRUE
    ELSE IF isSanitizerCall(v, c.sanitizers) THEN FALSE
    ELSE \/ \E i \in DOMAIN TaintOperands(v) :
                isTainted(TaintOperands(v)[i], visiting_ \cup {v}, bound, c)
         \/ /\ graph[v].kind = "Call"
            /\ graph[v].Fn \in DOMAIN c.bodies
            /\ \E r \in c.bodies[graph[v].Fn].returns :
                isTainted(r, visiting_ \cup {v},
                    {c.bodies[graph[v].Fn].params[i] :
                        i \in {k \in DOMAIN c.bodies[graph[v].Fn].params :
                                /\ k <= Len(graph[v].Args)
                                /\ isTainted(graph[v].Args[k],
                                             visiting_ \cup {v}, bound, c)}},
                    c)

\* A call with a static callee, its arguments and the type of its result.
CallOf(fn, args, t) ==
    [Value("Call", Nil, NoEdges) EXCEPT !.Fn = fn, !.Args = args, !.Type = t]

Unary(kind, x) == [Value(kind, x, NoEdges) EXCEPT !.Type = StringType]

\* Where the data comes from: the request parameter, an environment read,
\* a constant, a parameter that is no source, a context parameter.
Origins ==
    {Typed("Parameter", RequestType),
     CallOf(Callee("os", "Getenv"), <<7>>, StringType),
     Typed("Const", StringType),
     Typed("Parameter", StringType),
     Typed("Parameter", ContextType)}

\* The types a method of the request may return: a string, the context,
\* a pointer to it, and two types that only resemble it.
ResultTypes ==
    {StringType, ContextType, Type(TRUE, "Context", "context"),
     Type(FALSE, "Context", "myapp/context"),
     Type(FALSE, "CancelFunc", "context")}

\* One step of data flow from x: an operation on it, a call that takes it
\* (a library function, a sanitizer, a function of the program), or a
\* fresh value that does not use it.
Steps(x) ==
    {Unary(k, x) : k \in {"FieldAddr", "Field", "UnOp", "Convert",
                          "MakeInterface", "ChangeInterface", "Slice"}}
    \cup {[Unary("Extract", Nil) EXCEPT !.Tuple = x],
          [Unary("Index", 7) EXCEPT !.Index = x],
          Typed("Alloc", StringType)}
    \cup {CallOf(Callee("net/http", "Get"), <<x>>, t) : t \in ResultTypes}
    \cup {CallOf(fn, <<x>>, StringType) :
            fn \in {Callee("html", "EscapeString"), Callee("main", "echo"),
                    Callee("main", "fixed"), Callee("main", "fromEnv")}}

\* How the flow reaches the sink: converted, or joined with the step
\* before, or through a loop variable.
Joins ==
    {Unary("Convert", 3),
     [Unary("Phi", Nil) EXCEPT !.Edges = <<2, 3>>],
     [Unary("Phi", Nil) EXCEPT !.Edges = <<4, 3>>]}

\* The values of a program of the family:
\*   1  the origin, 2 and 3 two steps of flow from it, 4 the join
\*   5  the call that may be a sink
\*   6  w, the response writer       7  a string constant
\*   8  the parameter of echo, which returns it
\*   9  the parameter of fixed, which returns the constant
\*   10 the environment read fromEnv returns
TaintGraphs ==
    {<<o, s2, s3, j, call,
       Typed("Parameter", WriterType), Typed("Const", StringType),
       Typed("Parameter", StringType), Typed("Parameter", StringType),
       CallOf(Callee("os", "Getenv"), <<7>>, StringType)>> :
        o \in Origins, s2 \in Steps(1), s3 \in Steps(2), j \in Joins,
        call \in {CallOf(fn, args, NoType) :
                    fn \in {Callee("fmt", "Fprint"), Callee("fmt", "Sprint")},
                    args \in {<<6, 4>>, <<6, 3>>, <<7>>, <<7, 4>>}}}

TaintBodies ==
    [fn \in {Callee("main", "echo"), Callee("main", "fixed"),
             Callee("main", "fromEnv")} |->
        CASE fn.name = "echo" -> Body(<<8>>, {8})
          [] fn.name = "fixed" -> Body(<<9>>, {7})
          [] OTHER -> Body(<< >>, {10})]

TaintConfig(checkArgs) ==
    [sources |-> TaintSources, sanitizers |-> TaintSanitizers,
     bodies |-> TaintBodies,
     sink |-> Sink("fmt", "Fprint", NoGuards, checkArgs)]

TaintInit ==
    /\ graph \in TaintGraphs
    /\ prog = Program(AllPackages)
    /\ \E checkArgs \in {{}, {0}} :
        run = [phase |-> "scan", i |-> 1, instrs |-> <<4, 5>>,
               config |-> TaintConfig(checkArgs), findings |-> {}]
    /\ memo = EmptyMemo
    /\ visiting = {}
    /\ stack = << >>
    /\ query = NoQuery
    /\ done = FALSE
    /\ result = FALSE
    /\ ret = NoReturn
    /\ entryMemo = EmptyMemo
    /\ first = EmptyMemo

\* The call matches the sink, its guards hold and an inspected argument is
\* tainted.
SinkFires(v, c) ==
    /\ graph[v].kind = "Call"
    /\ MatchesSink(graph[v].Fn, c.sink)
    /\ guardsSatisfied(graph[v].Args, c.sink, prog)
    /\ \E i \in Inspected(graph[v].Args, c.sink) :
            isTainted(graph[v].Args[i + 1], {}, {}, c)

\* The next instruction of the function is visited; a sink call that
\* fires adds a finding at its position.
AnalyzeInstr ==
    /\ run.phase = "scan"
    /\ run.i <= Len(run.instrs)
    /\ run' = [run EXCEPT
                  !.i = @ + 1,
                  !.findings = IF SinkFires(run.instrs[run.i], run.config)
                               THEN @ \cup {run.instrs[run.i]} ELSE @]
    /\ UNCHANGED <<graph, prog, memo, checkerVars>>

AnalyzeDone ==
    /\ run.phase = "scan"
    /\ run.i > Len(run.instrs)
    /\ run' = [run EXCEPT !.phase = "done"]
    /\ UNCHANGED <<graph, prog, memo, checkerVars>>

TaintNext == AnalyzeInstr \/ AnalyzeDone

TaintSpec == TaintInit /\ [][TaintNext]_vars

(***************************************************************************)
(* What the claims measure the checker against.                            *)
(***************************************************************************)
\* target is reachable from v along at most k operand edges.
RECURSIVE ReachWithin(_, _, _)
ReachWithin(v, target, k) ==
    /\ v # Nil
    /\ target # Nil
    /\ \/ v = target
       \/ /\ k > 0
          /\ \E i \in 1 .. Len(Operands(v)) :
                ReachWithin(Operands(v)[i], target, k - 1)

\* target is reachable from v along operand edges.
Reachable(v, target) == ReachWithin(v, target, Cardinality(DOMAIN graph))

\* v lies on a cycle of operand edges.
OnCycle(v) ==
    \E i \in 1 .. Len(Operands(v)) :
        ReachWithin(Operands(v)[i], v, Cardinality(DOMAIN graph))

\* What a checker with an empty memo answers.
FreshDependsOn(value, target) == DependsOn(value, target, EmptyMemo).result

\* The last top-level call has returned and got past the nil checks.
Answered_ == done /\ query.value # Nil /\ query.target # Nil

\* No value has more than one operand: the graph is made of chains.
ChainGraph == \A v \in DOMAIN graph : Len(Operands(v)) <= 1

(***************************************************************************)
(* C1.  Memoization soundness: every query on the shared checker returns   *)
(* what a fresh checker with an empty memo returns for that query.         *)
(***************************************************************************)
C1_MemoSound ==
    done => result = FreshDependsOn(query.value, query.target)

(***************************************************************************)
(* C2.  Cycle safety: every top-level dependsOn call returns, on every     *)
(* value graph, Phi cycles included; the recursion is never deeper than    *)
(* MaxDepth + 1 activations, and every activation holds its own key of     *)
(* the visiting set.                                                       *)
(***************************************************************************)
RecursionBounded ==
    /\ Len(stack) <= MaxDepth + 1
    /\ Cardinality(visiting) = Len(stack)
    /\ \A i \in 1 .. Len(stack) :
          /\ stack[i].depth = i - 1
          /\ dependencyKey(stack[i].value, stack[i].target) \in visiting

C2_CycleSafe == []RecursionBounded /\ (Running ~> ~Running)

\* A query on a value of a Phi cycle with no path to the target returned.
C2_Witness ==
    /\ Answered_
    /\ OnCycle(query.value)
    /\ ~Reachable(query.value, query.target)
    /\ ~result
    /\ ret.why = "computed"

(***************************************************************************)
(* C3.  On a fresh checker dependsOn(v, target) is true if and only if     *)
(* target is reachable from v along at most MaxDepth operand edges.        *)
(***************************************************************************)
C3_FreshIffReachable ==
    (Answered_ /\ entryMemo = EmptyMemo)
        => (result <=> ReachWithin(query.value, query.target, MaxDepth))

(***************************************************************************)
(* C4.  A memo entry (v, target) -> false exists only for a v from which   *)
(* target is not reachable.                                                *)
(***************************************************************************)
C4_FalseMemoSound ==
    \A key \in DOMAIN memo : ~memo[key] => ~Reachable(key[1], key[2])

(***************************************************************************)
(* C5.  A repeated top-level query returns what its first call returned,   *)
(* and a memo entry, once written, never changes.                          *)
(***************************************************************************)
MemoStable ==
    \A key \in DOMAIN memo : key \in DOMAIN memo' /\ memo'[key] = memo[key]

RepeatStable ==
    LET key == dependencyKey(query.value, query.target)
    IN  (done /\ key \in DOMAIN first) => result = first[key]

C5_StableResult == []RepeatStable /\ [][MemoStable]_vars

\* A query on a value of a Phi cycle was answered from the memo with the
\* answer its first call computed.
C5_Witness ==
    /\ Answered_
    /\ ret.why = "memo"
    /\ Len(stack) = 0
    /\ OnCycle(query.value)
    /\ dependencyKey(query.value, query.target) \in DOMAIN first
    /\ result

(***************************************************************************)
(* C6.  Depth overflow is an approximation of the one query it happens     *)
(* in: on a graph of chains a top-level query is true exactly when the     *)
(* target is at most MaxDepth operand steps away, whatever was asked       *)
(* before.                                                                 *)
(***************************************************************************)
C6_DepthBound ==
    (Answered_ /\ ChainGraph)
        => (result <=> ReachWithin(query.value, query.target, MaxDepth))

(***************************************************************************)
(* What the claims measure the analysis against: the program's structure,  *)
(* with "depends on" read as reachable along at most MaxDepth operand      *)
(* edges.                                                                  *)
(***************************************************************************)
Depends(v, target) == ReachWithin(v, target, MaxDepth)

AnalysisDone == run.phase = "done"

Analyzed == {AllFuncs[k] : k \in 1 .. Len(AllFuncs)}

Handlers == {fn \in Analyzed : IsHandler(fn)}

RequestOf(fn) == findHandlerRequestAndWriterParams(fn).request

WriterOf(fn) == findHandlerRequestAndWriterParams(fn).writer

InstrsOf(fn) == prog.fn[fn].instrs

\* A call instruction whose static callee is one of the four form-parsing
\* methods of *net/http.Request.
FormMethodCall(instr) ==
    /\ IsCallInstruction(instr)
    /\ StaticCallee(instr.v) # Nil
    /\ prog.fn[StaticCallee(instr.v)].recv = RequestType
    /\ prog.fn[StaticCallee(instr.v)].name \in RiskyNames
    /\ Len(graph[instr.v].Args) > 0

\* Instruction i of fn is such a call on a receiver that depends on fn's
\* request parameter.
RiskyCall(fn, i) ==
    /\ FormMethodCall(InstrsOf(fn)[i])
    /\ Depends(graph[InstrsOf(fn)[i].v].Args[1], RequestOf(fn))

\* v is a call of net/http.MaxBytesReader on fn's writer and request.
MaxBytesReaderCall(fn, v) ==
    /\ v # Nil
    /\ graph[v].kind = "Call"
    /\ StaticCallee(v) # Nil
    /\ prog.fn[StaticCallee(v)].name = "MaxBytesReader"
    /\ prog.fn[StaticCallee(v)].pkg = "net/http"
    /\ Len(graph[v].Args) >= 3
    /\ Depends(graph[v].Args[1], WriterOf(fn))
    /\ Depends(graph[v].Args[2], RequestOf(fn))

\* Instruction i of fn stores a value into a field of something that
\* derives from fn's request parameter.
FieldStore(fn, i) ==
    /\ InstrsOf(fn)[i].op = "Store"
    /\ InstrsOf(fn)[i].Addr # Nil
    /\ graph[InstrsOf(fn)[i].Addr].kind = "FieldAddr"
    /\ Depends(graph[InstrsOf(fn)[i].Addr].X, RequestOf(fn))

\* Instruction i of fn is r.Body = http.MaxBytesReader(w, r.Body, n): the
\* field is Body and the struct is the request.
BodyStore(fn, i) ==
    /\ FieldStore(fn, i)
    /\ graph[InstrsOf(fn)[i].Addr].Field = "Body"
    /\ graph[graph[InstrsOf(fn)[i].Addr].X].Type = RequestType
    /\ MaxBytesReaderCall(fn, InstrsOf(fn)[i].Val)

BoundsBody(fn) == \E i \in 1 .. Len(InstrsOf(fn)) : BodyStore(fn, i)

IssuesIn(fn) ==
    {InstrsOf(fn)[i].pos : i \in 1 .. Len(InstrsOf(fn))} \cap run.issues

WrapperProtected == run.protection \ run.direct

(***************************************************************************)
(* C7.  A MaxBytesReader assignment to the request body that comes only    *)
(* after a form-parsing call does not suppress the finding for that call:  *)
(* in a handler that no wrapper protects, a risky call with such an        *)
(* assignment after it and none before it is reported.                     *)
(***************************************************************************)
C7_LimitAfterCallReported ==
    AnalysisDone =>
        \A fn \in Handlers \ WrapperProtected :
            \A i \in 1 .. Len(InstrsOf(fn)) :
                (/\ RiskyCall(fn, i)
                 /\ \E j \in i + 1 .. Len(InstrsOf(fn)) : BodyStore(fn, j)
                 /\ \A j \in 1 .. i - 1 : ~BodyStore(fn, j))
                    => InstrsOf(fn)[i].pos \in run.issues

(***************************************************************************)
(* C8.  The findings are exactly the risky calls of the handlers that are  *)
(* not protected: the call instructions, in a function with a request and  *)
(* a writer parameter that the protection map does not hold, whose static  *)
(* callee is ParseForm, ParseMultipartForm, FormValue or PostFormValue of  *)
(* *net/http.Request and whose receiver depends on the request parameter.  *)
(***************************************************************************)
C8_FindingsAreRiskyCalls ==
    AnalysisDone =>
        run.issues =
            UNION {{InstrsOf(fn)[i].pos :
                        i \in {k \in 1 .. Len(InstrsOf(fn)) : RiskyCall(fn, k)}} :
                   fn \in Handlers \ run.protection}

(***************************************************************************)
(* C9.  A handler is directly protected if and only if its body holds a    *)
(* Store of a MaxBytesReader call on its writer and request into the Body  *)
(* field of its request; a store of such a call into another field does    *)
(* not count.                                                              *)
(***************************************************************************)
C9_DirectIffBodyStore ==
    AnalysisDone => \A fn \in Handlers : fn \in run.direct <=> BoundsBody(fn)

\* The closure fn invokes ServeHTTP on its free variable b with its own
\* writer and request.
DelegatesTo(fn, b) ==
    \E i \in 1 .. Len(InstrsOf(fn)) :
        /\ InstrsOf(fn)[i].op = "Call"
        /\ graph[InstrsOf(fn)[i].v].Method = "ServeHTTP"
        /\ Len(graph[InstrsOf(fn)[i].v].Args) >= 2
        /\ Depends(graph[InstrsOf(fn)[i].v].CallValue, prog.fn[fn].freeVars[b])
        /\ Depends(graph[InstrsOf(fn)[i].v].Args[1], WriterOf(fn))
        /\ Depends(graph[InstrsOf(fn)[i].v].Args[2], RequestOf(fn))

\* The binding captures param: it depends on it, or it is the cell param
\* is stored into.
Captures(binding, param) ==
    \/ Depends(binding, param)
    \/ /\ graph[binding].kind = "Alloc"
       /\ \E fn \in Analyzed : \E i \in 1 .. Len(InstrsOf(fn)) :
            /\ InstrsOf(fn)[i].op = "Store"
            /\ InstrsOf(fn)[i].Addr = binding
            /\ Depends(InstrsOf(fn)[i].Val, param)

\* Instruction i of wrapper makes a closure that is a handler, captures
\* param in some binding and delegates to the free variable of that
\* binding; the closure bounds the request body (bounds), or holds no
\* store at all (~bounds).
ClosureOver(wrapper, i, param, bounds) ==
    /\ InstrsOf(wrapper)[i].op = "MakeClosure"
    /\ LET mc == graph[InstrsOf(wrapper)[i].v] IN
       /\ IsHandler(mc.Fn)
       /\ IF bounds THEN BoundsBody(mc.Fn)
          ELSE \A k \in 1 .. Len(InstrsOf(mc.Fn)) :
                    InstrsOf(mc.Fn)[k].op # "Store"
       /\ \E b \in 1 .. Len(mc.Bindings) :
            /\ b <= Len(prog.fn[mc.Fn].freeVars)
            /\ Captures(mc.Bindings[b], param)
            /\ DelegatesTo(mc.Fn, b)

\* Some call site passes a value that depends on handler to a wrapper
\* that makes such a closure over the parameter receiving it.
WrappedByClosure(handler, bounds) ==
    \E fn \in Analyzed : \E i \in 1 .. Len(InstrsOf(fn)) :
        /\ IsCallInstruction(InstrsOf(fn)[i])
        /\ StaticCallee(InstrsOf(fn)[i].v) # Nil
        /\ LET wrapper == StaticCallee(InstrsOf(fn)[i].v)
               args == graph[InstrsOf(fn)[i].v].Args
           IN  \E a \in 1 .. Len(args) :
                /\ a <= Len(prog.fn[wrapper].params)
                /\ Depends(args[a], handler)
                /\ \E k \in 1 .. Len(InstrsOf(wrapper)) :
                     ClosureOver(wrapper, k, prog.fn[wrapper].params[a], bounds)

\* The handler of scenario S6: its body is one form-parsing call on its
\* request parameter.
PlainHandler(fn) ==
    /\ IsHandler(fn)
    /\ Len(InstrsOf(fn)) = 1
    /\ FormMethodCall(InstrsOf(fn)[1])
    /\ graph[InstrsOf(fn)[1].v].Args[1] = RequestOf(fn)

(***************************************************************************)
(* C10.  Closure wrapper protection.  A handler passed to a wrapper whose  *)
(* closure captures the parameter receiving it, bounds the request body    *)
(* and delegates to the captured variable with its own writer and request  *)
(* is protected and gets no finding; the handler of S6 under the same      *)
(* middleware without the body assignment is not protected and its call    *)
(* is the one finding.                                                     *)
(***************************************************************************)
C10_ClosureWrapperProtects ==
    AnalysisDone =>
        \A fn \in Handlers :
            /\ WrappedByClosure(fn, TRUE)
                => fn \in run.protection /\ IssuesIn(fn) = {}
            /\ (/\ PlainHandler(fn)
                /\ WrappedByClosure(fn, FALSE)
                /\ ~WrappedByClosure(fn, TRUE))
                => /\ fn \notin run.protection
                   /\ run.issues = {InstrsOf(fn)[1].pos}
                   /\ run.out.returned
                   /\ run.out.issues = run.issues

\* The analysis of the safe S6 sample has returned: the handler is
\* protected through the closure over the cell holding next, not by its
\* own body, and nothing is reported.
C10_Witness ==
    /\ AnalysisDone
    /\ \E fn \in Handlers :
        /\ PlainHandler(fn)
        /\ WrappedByClosure(fn, TRUE)
        /\ \E w \in Analyzed : \E i \in 1 .. Len(InstrsOf(w)) :
            /\ InstrsOf(w)[i].op = "MakeClosure"
            /\ graph[graph[InstrsOf(w)[i].v].Bindings[1]].kind = "Alloc"
        /\ fn \in WrapperProtected
    /\ run.issues = {}
    /\ run.out = NoOutput

\* The receiver, writer and request of a ServeHTTP call: the call invokes
\* the interface method, or calls a method of that name statically with
\* the receiver as its first argument.
ServeHTTPCall(v) ==
    IF graph[v].Method = "ServeHTTP" /\ Len(graph[v].Args) >= 2
    THEN <<graph[v].CallValue, graph[v].Args[1], graph[v].Args[2]>>
    ELSE IF /\ graph[v].Method = ""
            /\ StaticCallee(v) # Nil
            /\ prog.fn[StaticCallee(v)].name = "ServeHTTP"
            /\ prog.fn[StaticCallee(v)].recv # NoType
            /\ Len(graph[v].Args) >= 3
         THEN <<graph[v].Args[1], graph[v].Args[2], graph[v].Args[3]>>
         ELSE << >>

\* The wrapper is a handler that bounds the request body and calls
\* ServeHTTP on a receiver that depends on its parameter a, with a writer
\* and a request that depend on its own.
DirectDelegation(wrapper, a) ==
    /\ IsHandler(wrapper)
    /\ BoundsBody(wrapper)
    /\ \E i \in 1 .. Len(InstrsOf(wrapper)) :
        /\ InstrsOf(wrapper)[i].op = "Call"
        /\ ServeHTTPCall(InstrsOf(wrapper)[i].v) # << >>
        /\ Depends(ServeHTTPCall(InstrsOf(wrapper)[i].v)[1],
                   prog.fn[wrapper].params[a])
        /\ Depends(ServeHTTPCall(InstrsOf(wrapper)[i].v)[2], WriterOf(wrapper))
        /\ Depends(ServeHTTPCall(InstrsOf(wrapper)[i].v)[3], RequestOf(wrapper))

\* The call sites of handler: the pairs of a statically called function
\* and the index of a parameter of it that receives a value depending on
\* handler.
ArgsPassed(call, handler) ==
    {<<StaticCallee(call), a>> :
        a \in {k \in 1 .. Len(graph[call].Args) :
                /\ k <= Len(prog.fn[StaticCallee(call)].params)
                /\ Depends(graph[call].Args[k], handler)}}

StaticCalls(fn) ==
    {InstrsOf(fn)[i].v :
        i \in {k \in 1 .. Len(InstrsOf(fn)) :
                /\ IsCallInstruction(InstrsOf(fn)[k])
                /\ StaticCallee(InstrsOf(fn)[k].v) # Nil}}

PassedTo(handler) ==
    UNION {ArgsPassed(call, handler) :
            call \in UNION {StaticCalls(fn) : fn \in Analyzed}}

\* The function makes no closure.
NoClosure(fn) ==
    \A i \in 1 .. Len(InstrsOf(fn)) : InstrsOf(fn)[i].op # "MakeClosure"

(***************************************************************************)
(* C11.  Direct-delegation wrapper protection.  A handler passed as        *)
(* argument i to a wrapper that is itself a handler, bounds the request    *)
(* body and calls ServeHTTP on a receiver depending on its parameter i     *)
(* with a writer and a request depending on its own parameters is          *)
(* protected and gets no finding; a handler without a body limit of its    *)
(* own whose wrappers make no closure and hold no such call (another       *)
(* receiver, a foreign writer or request, no body limit) is not protected. *)
(***************************************************************************)
C11_DirectDelegationProtects ==
    AnalysisDone =>
        \A fn \in Handlers :
            /\ (\E p \in PassedTo(fn) : DirectDelegation(p[1], p[2]))
                => fn \in run.protection /\ IssuesIn(fn) = {}
            /\ (/\ fn \notin run.direct
                /\ \A p \in PassedTo(fn) :
                        NoClosure(p[1]) /\ ~DirectDelegation(p[1], p[2]))
                => fn \notin run.protection

\* The analysis has returned for a program in which serve passes the
\* handler to withLimit: withLimit bounds the body and delegates to next
\* with its own writer and request, the handler holds a form-parsing call
\* and no limit of its own, and nothing is reported for it.
C11_Witness ==
    /\ AnalysisDone
    /\ \E fn \in Handlers :
        /\ PlainHandler(fn)
        /\ \E p \in PassedTo(fn) :
            /\ prog.fn[p[1]].name = "withLimit"
            /\ DirectDelegation(p[1], p[2])
        /\ fn \in WrapperProtected
        /\ IssuesIn(fn) = {}

\* The wrapper protects its parameter a: by direct delegation, or by a
\* closure over it that bounds the body and delegates to it.
ProtectsParam(wrapper, a) ==
    \/ DirectDelegation(wrapper, a)
    \/ \E k \in 1 .. Len(InstrsOf(wrapper)) :
            ClosureOver(wrapper, k, prog.fn[wrapper].params[a], TRUE)

\* A call instruction without a static callee that has an argument
\* depending on handler.
DynamicSite(handler) ==
    \E fn \in Analyzed : \E i \in 1 .. Len(InstrsOf(fn)) :
        /\ IsCallInstruction(InstrsOf(fn)[i])
        /\ StaticCallee(InstrsOf(fn)[i].v) = Nil
        /\ \E a \in 1 .. Len(graph[InstrsOf(fn)[i].v].Args) :
                Depends(graph[InstrsOf(fn)[i].v].Args[a], handler)

(***************************************************************************)
(* C12.  Wrapper protection is existential over call sites.  A handler     *)
(* that is not directly protected is in the protection map if and only if  *)
(* some call instruction of some analyzed function has a static callee     *)
(* and passes it a value depending on the handler as an argument whose     *)
(* parameter the callee protects.  Sites without a static callee and       *)
(* unprotected registrations of the same handler do not enter into it.     *)
(***************************************************************************)
C12_SomeCallSiteProtects ==
    AnalysisDone =>
        \A fn \in Handlers \ run.direct :
            fn \in run.protection
                <=> \E p \in PassedTo(fn) : ProtectsParam(p[1], p[2])

\* The analysis has returned for a program in which register first
\* registers the bare handler and then the handler wrapped in the
\* middleware: the handler is protected through the second site and
\* nothing is reported.
C12_Witness ==
    /\ AnalysisDone
    /\ \E fn \in Handlers :
        /\ PlainHandler(fn)
        /\ fn \in WrapperProtected
        /\ \E p \in PassedTo(fn) : ProtectsParam(p[1], p[2])
        /\ \E g \in Analyzed : \E c \in StaticCalls(g) :
            /\ prog.fn[StaticCallee(c)].name = "Handle"
            /\ Len(graph[c].Args) = 2
            /\ graph[graph[c].Args[2]].kind = "MakeInterface"
            /\ Depends(graph[c].Args[2], fn)
    /\ run.issues = {}

\* Some parameter of fn has type t.
HasParamOfType(fn, t) ==
    \E i \in 1 .. Len(prog.fn[fn].params) :
        /\ prog.fn[fn].params[i] # Nil
        /\ graph[prog.fn[fn].params[i]].Type = t

TakesRequestAndWriter(fn) ==
    HasParamOfType(fn, RequestType) /\ HasParamOfType(fn, WriterType)

\* The form-parsing calls of fn on a parameter of type *net/http.Request.
CallsOnRequest(fn) ==
    {i \in 1 .. Len(InstrsOf(fn)) :
        /\ FormMethodCall(InstrsOf(fn)[i])
        /\ \E k \in 1 .. Len(prog.fn[fn].params) :
            /\ prog.fn[fn].params[k] = graph[InstrsOf(fn)[i].v].Args[1]
            /\ graph[prog.fn[fn].params[k]].Type = RequestType}

(***************************************************************************)
(* C13.  Handler detection.  A function is taken for a handler if and only *)
(* if its parameters hold one of type *net/http.Request and one of type    *)
(* net/http.ResponseWriter, in either order.  A function lacking either    *)
(* is never protected and never reported; a function with both that is     *)
(* not protected has its form-parsing calls on the request reported.       *)
(***************************************************************************)
C13_HandlerIffRequestAndWriter ==
    AnalysisDone =>
        \A fn \in Analyzed :
            /\ IsHandler(fn) <=> TakesRequestAndWriter(fn)
            /\ ~TakesRequestAndWriter(fn)
                => fn \notin run.protection /\ IssuesIn(fn) = {}
            /\ TakesRequestAndWriter(fn) /\ fn \notin run.protection
                => \A i \in CallsOnRequest(fn) :
                        InstrsOf(fn)[i].pos \in run.issues

\* The analysis has returned for a program whose handler takes the
\* request before the writer and is not protected: its form-parsing call
\* is reported.
C13_Witness ==
    /\ AnalysisDone
    /\ \E fn \in Analyzed :
        /\ Len(prog.fn[fn].params) = 2
        /\ graph[prog.fn[fn].params[1]].Type = RequestType
        /\ graph[prog.fn[fn].params[2]].Type = WriterType
        /\ fn \notin run.protection
        /\ CallsOnRequest(fn) # {}
        /\ IssuesIn(fn) # {}

\* The kinds the design lists with the operand set {X}.
ListedUnaryKinds ==
    {"ChangeType", "MakeInterface", "ChangeInterface", "TypeAssert", "UnOp",
     "FieldAddr", "Field"}

\* The kinds the design lists with any operand set.
ListedKinds ==
    ListedUnaryKinds
    \cup {"IndexAddr", "Index", "Slice", "Extract", "Phi", "Call"}

\* v is target or reaches it in at most k steps through the X of the
\* listed unary kinds.
RECURSIVE ThroughX(_, _, _)
ThroughX(v, target, k) ==
    /\ v # Nil
    /\ \/ v = target
       \/ /\ k > 0
          /\ graph[v].kind \in ListedUnaryKinds
          /\ ThroughX(graph[v].X, target, k - 1)

(***************************************************************************)
(* C14.  The walk is transparent through the X operand of ChangeType,      *)
(* MakeInterface, ChangeInterface, TypeAssert, UnOp, FieldAddr and Field:  *)
(* dependsOn(v, target) returns true for a value v of one of these kinds   *)
(* whose X is target or reaches target through the X of such values,       *)
(* within the depth bound.                                                 *)
(***************************************************************************)
C14_TransparentThroughX ==
    \A v, t \in KindValues :
        (/\ done
         /\ query = [value |-> v, target |-> t]
         /\ graph[v].kind \in ListedUnaryKinds
         /\ ThroughX(graph[v].X, t, MaxDepth - 1))
            => result

(***************************************************************************)
(* C15.  Kinds outside the listed operand sets contribute no operands:     *)
(* for a value v of such a kind (Alloc, BinOp, Convert, Parameter, Const,  *)
(* ...) dependsOn(v, target) is true only when v is target, and            *)
(* dependsOn(v, v) is true for every non-nil v of any kind.                *)
(***************************************************************************)
C15_OtherKindsOnlySelf ==
    \A v, t \in KindValues :
        (done /\ query = [value |-> v, target |-> t])
            => /\ v = t => result
               /\ graph[v].kind \notin ListedKinds /\ result => v = t

\* dependsOn was asked about a Convert of the target and answered false,
\* and about a value and itself and answered true.
C15_Witness ==
    /\ done
    /\ query.value \in KindValues
    /\ graph[query.value].kind = "Convert"
    /\ graph[query.value].X = query.target
    /\ ~result
    /\ dependencyKey(query.value, query.target) \in DOMAIN memo

\* The positions the scan reported, one entry for each report: the risky
\* calls of the unprotected handlers, a function as often as the analyzed
\* functions hold it.
Reports(pos) ==
    {k \in 1 .. Len(AllFuncs) :
        /\ IsHandler(AllFuncs[k])
        /\ AllFuncs[k] \notin run.protection
        /\ \E i \in 1 .. Len(InstrsOf(AllFuncs[k])) :
            /\ InstrsOf(AllFuncs[k])[i].pos = pos
            /\ RiskyCall(AllFuncs[k], i)}

(***************************************************************************)
(* C16.  Each position emits at most one finding: whatever number of       *)
(* handlers and risky calls are scanned, and however often one call is     *)
(* scanned, the returned issue list holds no two issues with the same      *)
(* position, and it holds every reported position.                         *)
(***************************************************************************)
C16_OneIssuePerPosition ==
    AnalysisDone =>
        /\ \A i, j \in 1 .. Len(run.out.list) :
                run.out.list[i] = run.out.list[j] => i = j
        /\ {run.out.list[i] : i \in 1 .. Len(run.out.list)} = run.issues

\* The analysis has returned two issues for a program whose closure is
\* analyzed twice and calls ParseForm unprotected: the call was reported
\* twice and is once in the list.
C16_Witness ==
    /\ AnalysisDone
    /\ Len(run.out.list) = 2
    /\ \E i \in 1 .. 2 : Cardinality(Reports(run.out.list[i])) = 2

(***************************************************************************)
(* C17.  Missing prerequisites fail the run without partial output: when   *)
(* the pass holds no SSA result the run returns a non-nil error and a nil  *)
(* result, and has analyzed nothing.                                       *)
(***************************************************************************)
C17_MissingSSAFails ==
    AnalysisDone /\ ~prog.ssa =>
        /\ run.out.err
        /\ ~run.out.returned
        /\ run.out.list = << >>
        /\ run.issues = {}
        /\ run.protection = {}

\* The run on the pass without SSA result has returned its error.
C17_Witness ==
    /\ AnalysisDone
    /\ prog = MissingSSA
    /\ run.out.err
    /\ ~run.out.returned

(***************************************************************************)
(* C18.  With the SSA result present, a run over no source functions, and  *)
(* any run that produces no finding, returns a nil result and a nil        *)
(* error; a result that is returned is never an empty list.                *)
(***************************************************************************)
C18_NilWithoutFindings ==
    AnalysisDone /\ prog.ssa =>
        /\ ~run.out.err
        /\ prog.srcFuncs = << >> => run.issues = {}
        /\ run.issues = {} => ~run.out.returned /\ run.out.list = << >>
        /\ run.out.returned => run.out.list # << >>

\* The run on the pass whose SSA result has no source functions has
\* returned nil and no error.
C18_Witness ==
    /\ AnalysisDone
    /\ prog = EmptySSA
    /\ ~run.out.returned
    /\ ~run.out.err
    /\ run.out.list = << >>

\* The sink's guards have been checked on the call.
GuardsChecked == run.phase # "call" /\ MatchesSink(run.callee, run.sink)

\* The program holds a type-name object with this qualified name.
TypeFound(qualified) ==
    \E path \in prog.packages : \E name \in DOMAIN Scope(path) :
        /\ qualified = Append(path, name)
        /\ Scope(path)[name].kind = "type"

\* The guard on argument i names a type of the program that the original
\* type of the argument does not satisfy.
Unsatisfied(i) ==
    /\ i < Len(run.args)
    /\ TypeFound(run.sink.ArgTypeGuards[i])
    /\ ~satisfies(lookupNamedType(run.sink.ArgTypeGuards[i], prog),
                  resolveOriginalType(run.args[i + 1]))

(***************************************************************************)
(* C19.  Guard decision.  guardsSatisfied is true for a sink without       *)
(* guards and true for a nil program, even when the guarded argument is    *)
(* missing; with a program it is false when a guarded index is out of      *)
(* range of the arguments, false when the program does not hold the        *)
(* required type, and false when the original type of the argument does    *)
(* not satisfy the required type.                                          *)
(***************************************************************************)
C19_GuardDecision ==
    GuardsChecked =>
        /\ DOMAIN run.sink.ArgTypeGuards = {} => run.guarded
        /\ prog.nil => run.guarded
        /\ (/\ ~prog.nil
            /\ \E i \in DOMAIN run.sink.ArgTypeGuards :
                \/ i >= Len(run.args)
                \/ ~TypeFound(run.sink.ArgTypeGuards[i])
                \/ Unsatisfied(i))
            => ~run.guarded

\* The guards of a sink that guards argument 0 were checked on a call
\* without arguments and without a program, and passed.
C19_Witness ==
    /\ GuardsChecked
    /\ prog.nil
    /\ DOMAIN run.sink.ArgTypeGuards = {0}
    /\ run.args = << >>
    /\ run.guarded

\* The call is fmt.Fprint(writer, data) with tainted data, judged against
\* the sink that guards argument 0 to be a net/http.ResponseWriter, in a
\* program that holds every package.
FprintTo(writer) ==
    /\ run.phase = "done"
    /\ prog = Program(AllPackages)
    /\ run.callee = Callee("fmt", "Fprint")
    /\ run.sink.ArgTypeGuards = Guard(0, <<"net/http", "ResponseWriter">>)
    /\ run.args = <<writer, 11>>
    /\ 1 \in run.tainted

(***************************************************************************)
(* C20.  No finding is emitted for a sink call whose argument type guards  *)
(* are unsatisfied.  Tainted data written with fmt.Fprint to os.Stdout or  *)
(* to a plain io.Writer gives no finding; written to a                     *)
(* net/http.ResponseWriter it gives one.                                   *)
(***************************************************************************)
C20_UnsatisfiedGuardNoFinding ==
    /\ (/\ run.phase = "done"
        /\ ~prog.nil
        /\ \E i \in DOMAIN run.sink.ArgTypeGuards :
            \/ i >= Len(run.args)
            \/ ~TypeFound(run.sink.ArgTypeGuards[i])
            \/ Unsatisfied(i))
        => run.findings = {}
    /\ FprintTo(4) \/ FprintTo(5) => run.findings = {}
    /\ FprintTo(2) => Cardinality(run.findings) = 1

\* fmt.Fprint(w, data) with w a net/http.ResponseWriter was judged and
\* the finding emitted.
C20_Witness == FprintTo(2) /\ run.guarded /\ run.findings = {"call"}

(***************************************************************************)
(* What the claims measure the taint propagator against.                   *)
(***************************************************************************)
TaintDone == run.phase = "done" /\ "config" \in DOMAIN run

\* The edges data flows along: from a value to its operands, and from a
\* call of a function of the program to the values the function returns.
FlowEdges(v) ==
    (({graph[v].X, graph[v].Index, graph[v].Low, graph[v].High, graph[v].Max,
       graph[v].Tuple, graph[v].CallValue}
      \cup {graph[v].Edges[i] : i \in DOMAIN graph[v].Edges}
      \cup {graph[v].Args[i] : i \in DOMAIN graph[v].Args}) \ {Nil})
    \cup IF graph[v].kind = "Call" /\ graph[v].Fn \in DOMAIN run.config.bodies
         THEN run.config.bodies[graph[v].Fn].returns
         ELSE {}

SourceValues ==
    {v \in DOMAIN graph :
        \/ graph[v].kind = "Parameter" /\ graph[v].Type = RequestType
        \/ graph[v].kind = "Call" /\ graph[v].Fn = Callee("os", "Getenv")}

SanitizerCalls ==
    {v \in DOMAIN graph :
        graph[v].kind = "Call" /\ graph[v].Fn \in run.config.sanitizers}

\* Some path of at most k edges leads from v to a source value and meets
\* no value of blocked.
RECURSIVE SourcePath(_, _, _)
SourcePath(v, blocked, k) ==
    /\ v # Nil
    /\ v \notin blocked
    /\ \/ v \in SourceValues
       \/ k > 0 /\ \E o \in FlowEdges(v) : SourcePath(o, blocked, k - 1)

\* The calls of the sink's function among the instructions, and the
\* arguments of a call the sink inspects.
SinkCalls ==
    {v \in {run.instrs[i] : i \in DOMAIN run.instrs} :
        graph[v].kind = "Call" /\ graph[v].Fn = Callee("fmt", "Fprint")}

InspectedArgs(call) ==
    {graph[call].Args[i] :
        i \in {k \in DOMAIN graph[call].Args :
                run.config.sink.CheckArgs = {} \/ k - 1 \in run.config.sink.CheckArgs}}

\* C21: when every path from a source value to the inspected arguments of
\* a sink call passes through a sanitizer call, the call has no finding;
\* in particular an argument that is the result of a sanitizer call is
\* clean whatever the taint of the sanitizer's own arguments.
C21_SanitizerClosure ==
    TaintDone =>
        \A call \in SinkCalls :
            (\A a \in InspectedArgs(call) :
                ~SourcePath(a, SanitizerCalls, Len(graph)))
            => call \notin run.findings

\* The request's data is escaped and the escaped string written.
C21_Witness ==
    /\ TaintDone
    /\ 5 \in SinkCalls
    /\ graph[5].Args = <<6, 3>>
    /\ 3 \in SanitizerCalls
    /\ SourcePath(2, {}, Len(graph))
    /\ run.findings = {}

\* The values whose type is context.Context or a pointer to it.
ContextValues ==
    {v \in DOMAIN graph :
        graph[v].Type \in {ContextType, Type(TRUE, "Context", "context")}}

Constants == {v \in DOMAIN graph : graph[v].kind = "Const"}

C23_ContextCarriesNoTaint ==
    /\ TaintDone =>
            \A call \in SinkCalls :
                (\A a \in InspectedArgs(call) :
                    ~SourcePath(a, ContextValues, Len(graph)))
                => call \notin run.findings
    /\ \A v \in DOMAIN graph :
            isContextType(graph[v].Type) <=> v \in ContextValues

\* The request's context, held through a pointer, is passed to a function
\* that returns its argument, and the result is written.
C23_Witness ==
    /\ TaintDone
    /\ graph[1].kind = "Parameter" /\ 1 \in SourceValues
    /\ graph[2].kind = "Call" /\ graph[2].Type = Type(TRUE, "Context", "context")
    /\ graph[3].kind = "Call" /\ graph[3].Fn = Callee("main", "echo")
    /\ graph[4].kind = "Convert"
    /\ graph[5].Args = <<6, 4>> /\ 5 \in SinkCalls
    /\ run.config.sink.CheckArgs = {}
    /\ run.findings = {}

(***************************************************************************)
(* Two runs of the form-parsing analysis.                                  *)
(***************************************************************************)
SecondRunDone == run.phase = "done" /\ "prev" \in DOMAIN run

Findings(out) == {out.list[i] : i \in DOMAIN out.list}

WithoutGuard(sink, i) ==
    [sink EXCEPT !.ArgTypeGuards =
        [k \in DOMAIN sink.ArgTypeGuards \ {i} |-> sink.ArgTypeGuards[k]]]

\* The findings of the call of the run under another sink.
FindingsUnder(sink) ==
    IF /\ MatchesSink(run.callee, sink)
       /\ guardsSatisfied(run.args, sink, prog)
       /\ Inspected(run.args, sink) \cap run.tainted # {}
    THEN {"call"} ELSE {}

\* C25: the findings of a call under a sink are among its findings under
\* the same sink with any one of the arg-type guards removed.
C25_GuardMonotone ==
    run.phase = "done" /\ "sink" \in DOMAIN run =>
        \A i \in DOMAIN run.sink.ArgTypeGuards :
            run.findings \subseteq FindingsUnder(WithoutGuard(run.sink, i))

\* The writer is a ResponseWriter but no Closer: the guard on the data
\* fails and there is no finding; without it the call is reported.
C25_Witness ==
    /\ run.phase = "done" /\ "sink" \in DOMAIN run
    /\ DOMAIN run.sink.ArgTypeGuards = {0, 1}
    /\ run.findings = {}
    /\ FindingsUnder(WithoutGuard(run.sink, 1)) = {"call"}
    /\ FindingsUnder(WithoutGuard(run.sink, 0)) = {}

(***************************************************************************)
(* Address-taken captures.                                                 *)
(***************************************************************************)
\* The bindings of the closures the analyzed functions make, each with
\* the parameters of the function that makes the closure.
BindingsAndParams ==
    UNION {UNION {{<<graph[InstrsOf(fn)[i].v].Bindings[b], prog.fn[fn].params[p]>> :
                      b \in DOMAIN graph[InstrsOf(fn)[i].v].Bindings,
                      p \in DOMAIN prog.fn[fn].params} :
                  i \in {k \in DOMAIN InstrsOf(fn) :
                            InstrsOf(fn)[k].op = "MakeClosure"}} :
           fn \in Analyzed}

\* C26: on the checker as the run has left it, bindingDependsOnValue holds
\* of a binding and a parameter exactly when the binding depends on the
\* parameter or is an Alloc cell into which some Store writes a value that
\* depends on the parameter; a Store to another address does not count.
C26_BindingDependsIffCaptured ==
    \A bp \in BindingsAndParams :
        bindingDependsOnValue(bp[1], bp[2], memo).result <=> Captures(bp[1], bp[2])

\* The wrapper has been analyzed; its closure captures a cell that holds
\* a constant while the parameter is stored into another cell.
C26_Witness ==
    /\ run.phase = "scan"
    /\ \E bp \in BindingsAndParams :
        /\ graph[bp[1]].kind = "Alloc"
        /\ graph[bp[2]].Type = HandlerType
        /\ ~Captures(bp[1], bp[2])
        /\ \E fn \in Analyzed : \E i \in DOMAIN InstrsOf(fn) :
            /\ InstrsOf(fn)[i].op = "Store"
            /\ InstrsOf(fn)[i].Addr # bp[1]
            /\ graph[InstrsOf(fn)[i].Addr].kind = "Alloc"
            /\ InstrsOf(fn)[i].Val = bp[2]
    /\ DOMAIN memo # {}

(***************************************************************************)
(* The value stored into r.Body.                                           *)
(***************************************************************************)
\* The call is one of net/http.MaxBytesReader with at least three
\* arguments, the first depending on the writer and the second on the
\* request.
Qualifies(v) ==
    /\ graph[v].kind = "Call"
    /\ graph[v].Method = ""
    /\ graph[v].CallValue = 6
    /\ Len(graph[v].Args) >= 3
    /\ Depends(graph[v].Args[1], 1)
    /\ Depends(graph[v].Args[2], 2)

\* Unwrapping at most k ChangeType, MakeInterface, TypeAssert and Phi
\* nodes from v, along some edge of each Phi, reaches a qualifying call.
RECURSIVE UnwrapsTo(_, _)
UnwrapsTo(v, k) ==
    /\ v # Nil
    /\ \/ Qualifies(v)
       \/ /\ k > 0
          /\ \/ /\ graph[v].kind \in {"ChangeType", "MakeInterface", "TypeAssert"}
                /\ UnwrapsTo(graph[v].X, k - 1)
             \/ /\ graph[v].kind = "Phi"
                /\ \E i \in DOMAIN graph[v].Edges :
                        UnwrapsTo(graph[v].Edges[i], k - 1)

Judgement == run.phase = "done" /\ "accepted" \in DOMAIN run

\* C27 as stated: the stored value is accepted exactly when unwrapping
\* ChangeType, MakeInterface, TypeAssert and Phi nodes, however many,
\* reaches a qualifying MaxBytesReader call.
C27_AcceptedIffUnwraps ==
    Judgement => (run.accepted <=> UnwrapsTo(run.val, Len(graph)))

\* C27, amended: the stored value is accepted exactly when unwrapping at
\* most MaxDepth ChangeType, MakeInterface, TypeAssert and Phi nodes
\* reaches a qualifying MaxBytesReader call, along at least one edge of
\* each Phi; any other kind of value is rejected, and so is a cycle of Phi
\* nodes without such a call.
C27_AcceptedIffUnwrapsWithinDepth ==
    Judgement => (run.accepted <=> UnwrapsTo(run.val, MaxDepth))

\* The call is accepted through a type assertion and a Phi that is also
\* on a cycle with the Phi above it.
C27_Witness ==
    /\ Judgement
    /\ run.val = 10
    /\ run.accepted
    /\ graph[9].kind = "TypeAssert"
    /\ graph[10].kind = "Phi" /\ graph[10].Edges = <<11, 9>>
    /\ graph[11].kind = "Phi" /\ graph[11].Edges = <<4, 10>>

(***************************************************************************)
(* C28.  The state of the checker.                                         *)
(***************************************************************************)
\* C28: when a top-level dependsOn call has returned the visiting set is
\* empty; at every step no key is both memoized and marked as visiting,
\* and at most MaxDepth + 1 keys are marked.
C28_CheckerState ==
    /\ ~Running => visiting = {}
    /\ DOMAIN memo \cap visiting = {}
    /\ Cardinality(visiting) <= MaxDepth + 1

\* A query on a checker that already holds answers is two activations
\* deep: two keys are marked, neither of them memoized.
C28_Witness ==
    /\ Running
    /\ Cardinality(visiting) = 2
    /\ DOMAIN memo # {}

(***************************************************************************)
(* C29.  The analysis against the answers of a checker that has answered   *)
(* nothing before.                                                         *)
(***************************************************************************)
\* The handlers protected, and the risky calls of a handler, as a fresh
\* checker judges each of them on its own.
FreshProtected ==
    {fn \in Handlers : HandlerProtection(fn, EmptyMemo).result}

FreshRisky(fn) ==
    {InstrsOf(fn)[i].pos :
        i \in {k \in DOMAIN InstrsOf(fn) :
                /\ IsCallInstruction(InstrsOf(fn)[k])
                /\ isRiskyFormParsingCall(InstrsOf(fn)[k], RequestOf(fn),
                                          EmptyMemo).result}}

\* C29: the protection verdict of each handler and the set of findings
\* are those every handler and call gets on its own, whatever the order
\* of the functions and whatever the shared checker answered before.
C29_OrderIndependent ==
    AnalysisDone /\ ~run.out.err =>
        /\ run.protection = FreshProtected
        /\ run.issues = UNION {FreshRisky(fn) : fn \in Handlers \ FreshProtected}

(***************************************************************************)
(* C30.  No false dependency.                                              *)
(***************************************************************************)
\* C30: on a shared checker, after any queries, a top-level call answers
\* true only when target is reachable from the value along operand edges,
\* and so does every true entry of the memo; a call with a nil value or a
\* nil target answers false and leaves memo and visiting as they were.
C30_NoFalseDependency ==
    /\ done /\ result =>
            /\ query.value # Nil /\ query.target # Nil
            /\ Reachable(query.value, query.target)
    /\ \A key \in DOMAIN memo : memo[key] => Reachable(key[1], key[2])
    /\ done /\ (query.value = Nil \/ query.target = Nil) =>
            ~result /\ memo = entryMemo /\ visiting = {}

\* On a checker that holds a false answer, a query on another value was
\* walked and answered true.
C30_Witness ==
    /\ done /\ result
    /\ ret.why = "computed"
    /\ query.value # query.target
    /\ \E key \in DOMAIN entryMemo : ~entryMemo[key]
    /\ memo[dependencyKey(query.value, query.target)]

====
